---- MODULE Spec2Model ----
(***************************************************************************)
(* PicoW NeoPixel integration: the data update coordinator                 *)
(* (coordinator.py), the config-entry setup (__init__.py), the HTTP        *)
(* discovery scan and the scan step of the config flow (config_flow.py)    *)
(* and the light entity (light.py).                                        *)
(*                                                                         *)
(* Everything runs on one asyncio event loop: a coroutine runs without     *)
(* interruption from one await to the next, so every action below is the   *)
(* code between two suspension points.  The device is the environment: the *)
(* reply to each request is an input drawn from a small set.               *)
(***************************************************************************)
EXTENDS Integers, Sequences, FiniteSets, TLC

VARIABLES
    \* ---- coordinator.py / __init__.py ----
    phase,          \* where async_setup_entry, or async_unload_entry, is for the
                    \*   one config entry
    available,      \* PicoWNeoPixelCoordinator._available
    data,           \* DataUpdateCoordinator.data: the cached snapshot
    pollPc,         \* _async_update_data: "idle" | "state" | "info"
    pollState,      \* local `state` of the poll cycle in progress
    cmdPc,          \* async_send_command: "idle" | "post"
    cmdReqs,        \* requests the command in flight has issued
    coordId,        \* number of coordinators constructed so far
    hassData,       \* hass.data[DOMAIN][entry_id]: the stored coordinator, 0 if none
    forwarded,      \* the light platform was forwarded for the entry
    setupResult,    \* outcome of the last async_setup_entry
    hist,           \* history of the operations in flight (reset when they end):
                    \*   the bodies served to the poll cycle, the snapshot each
                    \*   operation started from, whether the other stored one meanwhile,
                    \*   whether a command stored one after the cycle had read /state
    last,           \* history: the communication attempt that finished last
    \* ---- config_flow.py: _discover_devices_http ----
    scanPc,         \* where the scan is: "idle" | "adapters" | "net_loop"
                    \*   | "host_loop" | "gather" | "final" | "final_gather" | "done"
    now,            \* event-loop time elapsed since start_time, in ticks
    enumDone,       \* history: time at which the interface enumeration returned
    networks_to_scan,   \* networks the outer loop has still to visit
    local_ips,      \* the scanner's own addresses
    hostsLeft,      \* hosts of the current network the inner loop has still to visit
    scan_tasks,     \* probes collected for the next batch, in order
    inflight,       \* probes of the awaited batch that have not returned
    results,        \* what the probes of the awaited batch returned (0: None)
    batchStart,     \* time at which the awaited batch was started
    waitDeadline,   \* time at which wait_for gives up on the last batch
    discovered_devices, \* device id -> address recorded for it (0: no entry)
    discovery_done, \* _discovery_done
    probed,         \* history: addresses whose probe was started
    answered,       \* history: <<address, device id>> of every record a probe returned
    deadlineHit,    \* history: the scan took one of its deadline branches
    probeOrder,     \* history: the addresses probed, in the order of their batches
    latest,         \* history: device id -> address of the record that arrived last
    finalTimedOut,  \* history: wait_for gave up on the last batch
    scanError,      \* the exception caught by the scan's `except Exception`, or "none"
    flowResult,     \* what async_step_scan returned last: "none" | "progress"
                    \*   | "discovery" | "manual" (the next step of progress_done)
    pendingTasks,   \* scan tasks created by async_step_scan that have not run yet
    sweeps,         \* executions of _discover_devices_http past its entry test
                    \*   and before its `finally`
    \* ---- light.py: PicoWNeoPixelLight ----
    lightPc,        \* the entity: "idle" | "updated" | "sent" | "applied"
    lightState,     \* coordinator.data["state"] as the entity reads it
    call,           \* the service call in progress and its keyword arguments
    command,        \* the command dict handed to async_send_command
    \* ---- config_flow.py: the form steps and validate_input ----
    form,           \* the form the flow shows: its step_id, the step that showed
                    \*   it and its errors["base"]
    userInput,      \* user_input of the async_configure call in progress
    flowPc,         \* the flow: "rest" | "next_step" | "sleep" | "validate" | "ended"
    valHost,        \* validate_input: data[CONF_HOST]
    valCaller,      \* the step that awaits validate_input
    try_count,      \* validate_input: try_count
    valGets,        \* history: GETs issued by the validate_input call
    valReply,       \* history: what happened to the last GET of validate_input
    valResult,      \* how the last validate_input call ended
    flowEnd,        \* how the flow ended, with the data of the entry it created
    \* ---- config_flow.py: the interface enumeration ----
    adapters,       \* what network.async_get_adapters returns
    is_docker,      \* is_docker
    common_added,   \* history: the common home networks were added
    candidates,     \* history: networks_to_scan as the enumeration left it
    \* ---- __init__.py: unload and reload ----
    unloadResult    \* the last async_unload_entry call: who made it and, once
                    \*   phase has left "unloading", what it returned

coordVars == <<phase, available, data, pollPc, pollState, cmdPc, cmdReqs, coordId,
               hassData, forwarded, setupResult, hist, last>>

scanVars == <<scanPc, now, enumDone, networks_to_scan, local_ips, hostsLeft, scan_tasks,
              inflight, results, batchStart, waitDeadline, discovered_devices,
              discovery_done, probed, answered, deadlineHit, probeOrder, latest,
              finalTimedOut, scanError, flowResult, pendingTasks, sweeps>>

lightVars == <<lightPc, lightState, call, command>>

entryVars == <<form, userInput, flowPc, valHost, valCaller, try_count, valGets, valReply,
               valResult, flowEnd>>

enumVars == <<adapters, is_docker, common_added, candidates>>

lifeVars == <<unloadResult>>

vars == <<coordVars, scanVars, lightVars, entryVars, enumVars, lifeVars>>

-----------------------------------------------------------------------------
(* Bounds of the model.                                                    *)

\* Number of distinct bodies GET /state (and the "state" block of a
\* POST /control reply) can carry.
NStateBodies == 2
\* Number of distinct bodies GET /info can carry.
NInfoBodies == 2
\* Number of times async_setup_entry is called for the entry.
MaxSetups == 2

StateBodies == 1..NStateBodies
InfoBodies == 1..NInfoBodies

\* Python's None where a body is expected.
Null == 0

\* The coordinator's data before any successful refresh (None): a snapshot
\* has a state block and an info block, this has neither.
NoData == [state |-> Null, info |-> Null]

-----------------------------------------------------------------------------
(* The device's replies and the exceptions they turn into.                 *)

\* What can happen to one GET: a 200 with a JSON body, the asyncio.timeout(10)
\* expiring, a transport error, a non-200 status, a body with the wrong
\* content type, a body that is not JSON.
GetFailures == {"timeout", "client_error", "bad_status", "bad_content_type", "bad_json"}

\* _get_state / _get_info: the exception a failed GET raises (the helper logs
\* and re-raises it unchanged).
GetRaises(kind) ==
    CASE kind = "timeout" -> "TimeoutError"
      [] kind = "client_error" -> "ClientError"
      [] kind = "bad_status" -> "UpdateFailed"
      [] kind = "bad_content_type" -> "ClientError"
      [] kind = "bad_json" -> "ValueError"

\* A mutated handler: the catch-all branch forgets the availability flag.
PollExceptKeepsFlag(exc, avail) ==
    CASE exc = "TimeoutError" -> [available |-> FALSE, raised |-> "UpdateFailed"]
      [] exc = "ClientError" -> [available |-> FALSE, raised |-> "UpdateFailed"]
      [] OTHER -> [available |-> avail, raised |-> "UpdateFailed"]

\* The except clauses of _async_update_data: which clause catches `exc`, what
\* it writes to _available and what it raises.
PollExcept(exc, avail) ==
    CASE exc = "TimeoutError" -> [available |-> FALSE, raised |-> "UpdateFailed"]
      [] exc = "ClientError" -> [available |-> FALSE, raised |-> "UpdateFailed"]
      [] OTHER -> [available |-> FALSE, raised |-> "UpdateFailed"]

\* What can happen to the POST /control: 200 with a JSON object holding
\* "state", 200 with a JSON object without it, or a failure; the failures are
\* those of a GET and a 200 whose JSON is no object (`"state" in result` or
\* `result["state"]` then raises TypeError).
PostFailures == {"timeout", "client_error", "bad_status", "bad_content_type", "bad_json",
                 "not_an_object"}

\* async_send_command: the exception a failed POST raises inside the try.
PostRaises(kind) ==
    CASE kind = "timeout" -> "TimeoutError"
      [] kind = "client_error" -> "ClientError"
      [] kind = "bad_status" -> "UpdateFailed"
      [] kind = "bad_content_type" -> "ClientError"
      [] kind = "bad_json" -> "ValueError"
      [] kind = "not_an_object" -> "TypeError"

\* A mutated handler: the UpdateFailed raised for a non-200 status is caught
\* by the catch-all clause and swallowed instead of being re-raised.
CmdExceptSwallows(exc) ==
    CASE exc = "TimeoutError" -> "UpdateFailed"
      [] exc = "ClientError" -> "UpdateFailed"
      [] exc = "UpdateFailed" -> "none"
      [] OTHER -> "UpdateFailed"

\* The except clauses of async_send_command: what each raises.  None of them
\* writes _available.
CmdExcept(exc) ==
    CASE exc = "TimeoutError" -> "UpdateFailed"
      [] exc = "ClientError" -> "UpdateFailed"
      [] OTHER -> "UpdateFailed"

NoRequests == [posts |-> 0, gets |-> 0]

NoAttempt == [kind |-> "none", ok |-> FALSE, reply |-> "none", raised |-> "none",
              before |-> NoData, availBefore |-> TRUE,
              atStart |-> NoData, crossed |-> FALSE,
              state |-> Null, info |-> Null, reqs |-> NoRequests]

NoHist == [state |-> Null, info |-> Null,
           pollFrom |-> NoData, pollCrossed |-> FALSE, pollStale |-> FALSE,
           cmdFrom |-> NoData, cmdCrossed |-> FALSE]

-----------------------------------------------------------------------------
(* Setup of the config entry and the poll cycle.                           *)

\* A mutated setup: the coordinator is stored in hass.data[DOMAIN] before its
\* first refresh has been awaited.
SetupStartRegistersEarly ==
    /\ phase \in {"not_loaded", "not_ready"}
    /\ coordId < MaxSetups
    /\ coordId' = coordId + 1
    /\ hassData' = coordId + 1
    /\ phase' = "first_refresh"
    /\ available' = TRUE
    /\ data' = NoData
    /\ pollPc' = "state"
    /\ pollState' = Null
    /\ setupResult' = "pending"
    /\ hist' = NoHist
    /\ last' = NoAttempt
    /\ UNCHANGED <<cmdPc, cmdReqs, forwarded>>

\* PicoWNeoPixelCoordinator.__init__ followed by the start of
\* async_config_entry_first_refresh: a fresh coordinator whose first poll
\* cycle has sent GET /state.  Home Assistant calls async_setup_entry for an
\* entry that is not loaded, and again after ConfigEntryNotReady.
SetupStart ==
    /\ phase \in {"not_loaded", "not_ready"}
    /\ coordId < MaxSetups
    /\ coordId' = coordId + 1
    /\ phase' = "first_refresh"
    /\ available' = TRUE
    /\ data' = NoData
    /\ pollPc' = "state"
    /\ pollState' = Null
    /\ setupResult' = "pending"
    /\ hist' = NoHist
    /\ last' = NoAttempt
    /\ UNCHANGED <<cmdPc, cmdReqs, hassData, forwarded>>

\* The scheduled refresh of a loaded entry enters _async_update_data and
\* awaits GET /state.  The scheduler runs one refresh at a time.
PollStart ==
    /\ phase = "loaded"
    /\ pollPc = "idle"
    /\ pollPc' = "state"
    /\ pollState' = Null
    /\ hist' = [hist EXCEPT !.state = Null, !.info = Null,
                            !.pollFrom = data, !.pollCrossed = FALSE, !.pollStale = FALSE]
    /\ UNCHANGED <<phase, available, data, cmdPc, cmdReqs, coordId, hassData, forwarded,
                   setupResult, last>>

\* A mutated failure path: the failed cycle commits what it has fetched so
\* far, merged with nothing.
PollFailCommitsPartial(kind) ==
    LET h == PollExcept(GetRaises(kind), available) IN
    /\ available' = h.available
    /\ data' = IF pollState # Null THEN [state |-> pollState, info |-> Null] ELSE data
    /\ last' = [kind |-> "poll", ok |-> FALSE, reply |-> kind, raised |-> h.raised,
                before |-> data, availBefore |-> available,
                atStart |-> hist.pollFrom, crossed |-> hist.pollCrossed,
                state |-> hist.state, info |-> Null,
                reqs |-> [posts |-> 0, gets |-> IF pollPc = "state" THEN 1 ELSE 2]]
    /\ pollPc' = "idle"
    /\ pollState' = Null
    /\ IF phase = "first_refresh"
         THEN phase' = "not_ready" /\ setupResult' = "ConfigEntryNotReady"
         ELSE UNCHANGED <<phase, setupResult>>
    /\ hist' = [hist EXCEPT !.state = Null, !.info = Null,
                            !.pollFrom = NoData, !.pollCrossed = FALSE, !.pollStale = FALSE]
    /\ UNCHANGED <<cmdPc, cmdReqs, coordId, hassData, forwarded>>

\* A GET of the cycle failed with `kind`: the matching except clause of
\* _async_update_data runs and UpdateFailed leaves the cycle, so the refresh
\* stores nothing.  During async_setup_entry the first refresh's failure is
\* re-raised as ConfigEntryNotReady before anything is registered.
PollFail(kind) ==
    LET h == PollExcept(GetRaises(kind), available) IN
    /\ available' = h.available
    /\ data' = data
    /\ last' = [kind |-> "poll", ok |-> FALSE, reply |-> kind, raised |-> h.raised,
                before |-> data, availBefore |-> available,
                atStart |-> hist.pollFrom, crossed |-> hist.pollCrossed,
                state |-> hist.state, info |-> Null,
                reqs |-> [posts |-> 0, gets |-> IF pollPc = "state" THEN 1 ELSE 2]]
    /\ pollPc' = "idle"
    /\ pollState' = Null
    /\ IF phase = "first_refresh"
         THEN phase' = "not_ready" /\ setupResult' = "ConfigEntryNotReady"
         ELSE UNCHANGED <<phase, setupResult>>
    /\ hist' = [hist EXCEPT !.state = Null, !.info = Null,
                            !.pollFrom = NoData, !.pollCrossed = FALSE, !.pollStale = FALSE]
    /\ UNCHANGED <<cmdPc, cmdReqs, coordId, hassData, forwarded>>

\* A mutated cycle: the state block is written into the snapshot as soon as
\* it is fetched, before GET /info is awaited.
PollStateOkStoresEarly(body) ==
    /\ pollPc = "state"
    /\ pollState' = body
    /\ pollPc' = "info"
    /\ data' = [data EXCEPT !.state = body]
    /\ hist' = [hist EXCEPT !.state = body]
    /\ UNCHANGED <<phase, available, cmdPc, cmdReqs, coordId, hassData, forwarded,
                   setupResult, last>>

\* GET /state answered 200 with JSON body `body`: the cycle keeps it in
\* `state` and awaits GET /info.
PollStateOk(body) ==
    /\ pollPc = "state"
    /\ pollState' = body
    /\ pollPc' = "info"
    /\ hist' = [hist EXCEPT !.state = body]
    /\ UNCHANGED <<phase, available, data, cmdPc, cmdReqs, coordId, hassData, forwarded,
                   setupResult, last>>

\* GET /state failed.
PollStateFail(kind) ==
    /\ pollPc = "state"
    /\ PollFail(kind)

\* A mutated commit: the cycle keeps the info block it had cached.
PollCommitKeepsInfo(body) ==
    /\ pollPc = "info"
    /\ available' = TRUE
    /\ data' = [state |-> pollState,
                info |-> IF data # NoData THEN data.info ELSE body]
    /\ last' = [kind |-> "poll", ok |-> TRUE, reply |-> "ok", raised |-> "none",
                before |-> data, availBefore |-> available,
                atStart |-> hist.pollFrom, crossed |-> hist.pollCrossed,
                state |-> hist.state, info |-> body,
                reqs |-> [posts |-> 0, gets |-> 2]]
    /\ pollPc' = "idle"
    /\ pollState' = Null
    /\ hist' = [hist EXCEPT !.state = Null, !.info = Null,
                            !.pollFrom = NoData, !.pollCrossed = FALSE, !.pollStale = FALSE,
                            !.cmdCrossed = @ \/ cmdPc = "post"]
    /\ IF phase = "first_refresh"
         THEN phase' = "forwarding" /\ hassData' = coordId
         ELSE UNCHANGED <<phase, hassData>>
    /\ UNCHANGED <<cmdPc, cmdReqs, coordId, forwarded, setupResult>>

\* GET /info answered 200 with JSON body `body`: _available becomes True and
\* the cycle returns {"state": state, "info": info}, which the refresh stores
\* as the coordinator's data.  When this was the first refresh,
\* async_setup_entry goes on without suspending to store the coordinator in
\* hass.data[DOMAIN] and then awaits the platform forward.
PollCommit(body) ==
    /\ pollPc = "info"
    /\ available' = TRUE
    /\ data' = [state |-> pollState, info |-> body]
    /\ last' = [kind |-> "poll", ok |-> TRUE, reply |-> "ok", raised |-> "none",
                before |-> data, availBefore |-> available,
                atStart |-> hist.pollFrom, crossed |-> hist.pollCrossed,
                state |-> hist.state, info |-> body,
                reqs |-> [posts |-> 0, gets |-> 2]]
    /\ pollPc' = "idle"
    /\ pollState' = Null
    /\ hist' = [hist EXCEPT !.state = Null, !.info = Null,
                            !.pollFrom = NoData, !.pollCrossed = FALSE, !.pollStale = FALSE,
                            !.cmdCrossed = @ \/ cmdPc = "post"]
    /\ IF phase = "first_refresh"
         THEN phase' = "forwarding" /\ hassData' = coordId
         ELSE UNCHANGED <<phase, hassData>>
    /\ UNCHANGED <<cmdPc, cmdReqs, coordId, forwarded, setupResult>>

\* GET /info failed after GET /state had succeeded.
PollInfoFail(kind) ==
    /\ pollPc = "info"
    /\ PollFail(kind)

\* async_forward_entry_setups returns: the light entity exists from here on
\* and async_setup_entry returns True.
ForwardPlatforms ==
    /\ phase = "forwarding"
    /\ phase' = "loaded"
    /\ forwarded' = TRUE
    /\ setupResult' = "True"
    /\ UNCHANGED <<available, data, pollPc, pollState, cmdPc, cmdReqs, coordId, hassData,
                   hist, last>>

-----------------------------------------------------------------------------
(* Command dispatch.                                                       *)

\* The light entity calls async_send_command: the POST /control is sent and
\* awaited.  One command is in flight at a time in this model.
CmdStart ==
    /\ phase = "loaded"
    /\ cmdPc = "idle"
    /\ cmdPc' = "post"
    /\ cmdReqs' = [posts |-> 1, gets |-> 0]
    /\ hist' = [hist EXCEPT !.cmdFrom = data, !.cmdCrossed = FALSE]
    /\ UNCHANGED <<phase, available, data, pollPc, pollState, coordId, hassData,
                   forwarded, setupResult, last>>

\* A mutated success path: the command re-fetches nothing but drops the
\* cached info block.
CmdOkStateDropsInfo(body) ==
    /\ cmdPc = "post"
    /\ data # NoData
    /\ data' = [state |-> body, info |-> Null]
    /\ last' = [kind |-> "command", ok |-> TRUE, reply |-> "ok", raised |-> "none",
                before |-> data, availBefore |-> available,
                atStart |-> hist.cmdFrom, crossed |-> hist.cmdCrossed,
                state |-> body, info |-> Null, reqs |-> cmdReqs]
    /\ cmdPc' = "idle"
    /\ hist' = [hist EXCEPT !.cmdFrom = NoData, !.cmdCrossed = FALSE,
                            !.pollCrossed = @ \/ pollPc # "idle",
                            !.pollStale = @ \/ pollPc = "info"]
    /\ UNCHANGED <<phase, available, pollPc, pollState, cmdReqs, coordId, hassData,
                   forwarded, setupResult>>

\* The POST answered 200 with a JSON object holding "state": body.
\* async_set_updated_data stores {"state": result["state"], "info":
\* self.data.get("info", {})} and the result is returned.  (A loaded entry has
\* had a successful first refresh, so self.data is a snapshot here.)
CmdOkState(body) ==
    /\ cmdPc = "post"
    /\ data # NoData
    /\ data' = [state |-> body, info |-> data.info]
    /\ last' = [kind |-> "command", ok |-> TRUE, reply |-> "ok", raised |-> "none",
                before |-> data, availBefore |-> available,
                atStart |-> hist.cmdFrom, crossed |-> hist.cmdCrossed,
                state |-> body, info |-> Null, reqs |-> cmdReqs]
    /\ cmdPc' = "idle"
    /\ hist' = [hist EXCEPT !.cmdFrom = NoData, !.cmdCrossed = FALSE,
                            !.pollCrossed = @ \/ pollPc # "idle",
                            !.pollStale = @ \/ pollPc = "info"]
    /\ UNCHANGED <<phase, available, pollPc, pollState, cmdReqs, coordId, hassData,
                   forwarded, setupResult>>

\* The POST answered 200 with a JSON object without "state": the result is
\* returned and nothing is stored.
CmdOkNoState ==
    /\ cmdPc = "post"
    /\ last' = [kind |-> "command", ok |-> TRUE, reply |-> "ok", raised |-> "none",
                before |-> data, availBefore |-> available,
                atStart |-> hist.cmdFrom, crossed |-> hist.cmdCrossed,
                state |-> Null, info |-> Null, reqs |-> cmdReqs]
    /\ cmdPc' = "idle"
    /\ hist' = [hist EXCEPT !.cmdFrom = NoData, !.cmdCrossed = FALSE]
    /\ UNCHANGED <<phase, available, data, pollPc, pollState, cmdReqs, coordId,
                   hassData, forwarded, setupResult>>

\* The POST failed with `kind`: an except clause of async_send_command turns
\* the exception into UpdateFailed; nothing else is written.
CmdFail(kind) ==
    /\ cmdPc = "post"
    /\ last' = [kind |-> "command", ok |-> FALSE, reply |-> kind,
                raised |-> CmdExcept(PostRaises(kind)),
                before |-> data, availBefore |-> available,
                atStart |-> hist.cmdFrom, crossed |-> hist.cmdCrossed,
                state |-> Null, info |-> Null, reqs |-> cmdReqs]
    /\ cmdPc' = "idle"
    /\ hist' = [hist EXCEPT !.cmdFrom = NoData, !.cmdCrossed = FALSE]
    /\ UNCHANGED <<phase, available, data, pollPc, pollState, cmdReqs, coordId,
                   hassData, forwarded, setupResult>>

-----------------------------------------------------------------------------

CoordInit ==
    /\ phase = "not_loaded"
    /\ available = TRUE
    /\ data = NoData
    /\ pollPc = "idle"
    /\ pollState = Null
    /\ cmdPc = "idle"
    /\ cmdReqs = NoRequests
    /\ coordId = 0
    /\ hassData = 0
    /\ forwarded = FALSE
    /\ setupResult = "none"
    /\ hist = NoHist
    /\ last = NoAttempt

-----------------------------------------------------------------------------
(* The discovery scan: PicoWNeoPixelConfigFlow._discover_devices_http.     *)
(*                                                                         *)
(* Time is counted in ticks since start_time and passes only while the     *)
(* scan awaits a batch of probes.  The result of the interface enumeration *)
(* (networks_to_scan, local_ips) is an input of the scan.                  *)

\* The class constants, scaled to ticks and batch sizes these address ranges
\* can reach (the source has MAX_PARALLEL_SCANS = 30, SCAN_TIMEOUT = 1.5 s and
\* DISCOVERY_TIMEOUT = 60 s).
MAX_PARALLEL_SCANS == 3
SCAN_TIMEOUT == 2
DISCOVERY_TIMEOUT == 2

\* Longest time the interface enumeration takes, in ticks.
MaxEnumTicks == 3

\* network_obj.hosts() of each candidate network, in address order.
Hosts == << <<1, 2, 3>>, <<4, 5, 6, 7>> >>

Networks == DOMAIN Hosts

Addresses == UNION {{Hosts[n][i] : i \in DOMAIN Hosts[n]} : n \in Networks}

\* The device id the host at each address reports in /info, 0 where no device
\* listens: addresses 1 and 3 reach the same device, addresses 4 and 7 another
\* one.
DeviceIdAt == <<1, 0, 1, 2, 0, 0, 2>>

DeviceIds == {DeviceIdAt[a] : a \in Addresses} \ {0}

\* Addresses of the scanner's own interfaces that lie in the candidate
\* networks.
OwnAddresses == {2, 5}

\* What can happen to the GET /info of one probe.
ProbeReplies == {"ok_id", "ok_no_id", "ok_unhashable_id", "bad_status", "bad_json",
                 "client_error", "timeout"}

\* The device_id of a record whose id is a JSON array or object: truthy, so
\* _scan_ip returns the record, and unhashable, so it cannot be a dict key.
UnhashableId == -1

\* _scan_ip: the device id of the record the probe returns, 0 for None.  Only
\* a 200 whose JSON has a non-empty device id gives a record, whatever the
\* type of the id; every exception is caught.
ScanIp(ip, reply) ==
    IF reply = "ok_id" /\ DeviceIdAt[ip] # 0 THEN DeviceIdAt[ip]
    ELSE IF reply = "ok_unhashable_id" THEN UnhashableId
    ELSE 0

\* The replies the host at `ip` can give `age` ticks after the probe started:
\* asyncio.timeout(SCAN_TIMEOUT) expires at SCAN_TIMEOUT, anything else
\* arrives before or as it does.
RepliesAt(ip, age) ==
    {r \in ProbeReplies :
        /\ (r = "ok_id" => DeviceIdAt[ip] # 0)
        /\ (r = "timeout" => age = SCAN_TIMEOUT)}

\* A mutated batch test: one probe too many is collected before the batch is
\* awaited.
BatchFullOffByOne(tasks) == Len(tasks) > MAX_PARALLEL_SCANS

\* `len(scan_tasks) >= self.MAX_PARALLEL_SCANS`
BatchFull(tasks) == Len(tasks) >= MAX_PARALLEL_SCANS

\* A mutated deadline test: one more tick is let pass.
DeadlinePassedLate(elapsed) == elapsed > DISCOVERY_TIMEOUT + 1

\* `elapsed > self.DISCOVERY_TIMEOUT`
DeadlinePassed(elapsed) == elapsed > DISCOVERY_TIMEOUT

RECURSIVE RecordResultsKeepsFirst(_, _, _)
\* A mutated record loop: a device id that already has an entry keeps it.
RecordResultsKeepsFirst(devices, tasks, res) ==
    IF tasks = <<>> THEN devices
    ELSE LET ip == Head(tasks) IN
         IF res[ip] = UnhashableId THEN devices
         ELSE RecordResultsKeepsFirst(IF res[ip] # 0 /\ devices[res[ip]] = 0
                                        THEN [devices EXCEPT ![res[ip]] = ip]
                                        ELSE devices,
                                      Tail(tasks), res)

RECURSIVE RecordResults(_, _, _)
\* The loop over a batch's results, in the order of scan_tasks: every record
\* is stored under its device id, overwriting what was stored there.  The
\* store of a record with an unhashable id raises TypeError, which ends the
\* loop with the entries stored so far.
RecordResults(devices, tasks, res) ==
    IF tasks = <<>> THEN devices
    ELSE LET ip == Head(tasks) IN
         IF res[ip] = UnhashableId THEN devices
         ELSE RecordResults(IF res[ip] # 0 THEN [devices EXCEPT ![res[ip]] = ip]
                            ELSE devices,
                            Tail(tasks), res)

\* The exception the record loop raises on these results, "none" if it runs
\* to its end.
RecordRaises(tasks, res) ==
    IF \E i \in DOMAIN tasks : res[tasks[i]] = UnhashableId THEN "TypeError" ELSE "none"

TaskSet(tasks) == {tasks[i] : i \in DOMAIN tasks}

NoResults == [a \in Addresses |-> 0]

NoDevices == [d \in DeviceIds |-> 0]

\* The keys of discovered_devices.
DiscoveredIds == {d \in DeviceIds : discovered_devices[d] # 0}

\* `finally: self._discovery_done = True`
ScanFinished ==
    /\ scanPc' = "done"
    /\ discovery_done' = TRUE
    /\ sweeps' = sweeps - 1

\* The scan task created by async_step_scan runs: _async_scan_task enters
\* _discover_devices_http with discovery not done, start_time is taken and
\* the interface enumeration is awaited.
ScanStart ==
    /\ scanPc = "idle"
    /\ pendingTasks > 0
    /\ ~discovery_done
    /\ pendingTasks' = pendingTasks - 1
    /\ sweeps' = sweeps + 1
    /\ now' = 0
    /\ scanPc' = "adapters"
    /\ UNCHANGED <<enumDone, networks_to_scan, local_ips, flowResult, scanError, hostsLeft,
                   scan_tasks, inflight, results, batchStart, waitDeadline,
                   discovered_devices, discovery_done, probed, probeOrder, answered,
                   latest, deadlineHit, finalTimedOut>>

\* network.async_get_adapters returns after `d` ticks with the networks and
\* own addresses of this scan; with no network to scan the function returns
\* at once.
AdaptersReturn(d) ==
    /\ scanPc = "adapters"
    /\ now' = now + d
    /\ enumDone' = now + d
    /\ scan_tasks' = <<>>
    /\ IF networks_to_scan = {}
         THEN ScanFinished
         ELSE scanPc' = "net_loop" /\ UNCHANGED <<discovery_done, sweeps>>
    /\ UNCHANGED <<networks_to_scan, local_ips, flowResult, pendingTasks, scanError, hostsLeft, inflight, results,
                   batchStart, waitDeadline, discovered_devices, probed, probeOrder, answered, latest,
                   deadlineHit, finalTimedOut>>

\* One turn of `for network_obj in networks_to_scan`: the deadline test, then
\* the hosts of the next network (a set is iterated in no particular order).
NetNext ==
    /\ scanPc = "net_loop"
    /\ IF networks_to_scan = {}
         THEN /\ scanPc' = "final"
              /\ UNCHANGED <<networks_to_scan, hostsLeft, deadlineHit, finalTimedOut>>
         ELSE IF DeadlinePassed(now)
         THEN /\ scanPc' = "final"
              /\ deadlineHit' = TRUE
              /\ UNCHANGED finalTimedOut
              /\ UNCHANGED <<networks_to_scan, hostsLeft>>
         ELSE \E n \in networks_to_scan :
              /\ networks_to_scan' = networks_to_scan \ {n}
              /\ hostsLeft' = Hosts[n]
              /\ scanPc' = "host_loop"
              /\ UNCHANGED <<deadlineHit, finalTimedOut>>
    /\ UNCHANGED <<now, enumDone, local_ips, flowResult, pendingTasks, scanError, scan_tasks, inflight, results, batchStart,
                   waitDeadline, discovered_devices, discovery_done, sweeps, probed, probeOrder, answered, latest>>

\* One turn of `for ip in network_obj.hosts()`: the probe of a foreign address
\* is appended; a full batch is awaited with asyncio.gather unless the
\* deadline has passed, in which case the inner loop is left.
HostNext ==
    /\ scanPc = "host_loop"
    /\ IF hostsLeft = <<>>
         THEN /\ scanPc' = "net_loop"
              /\ UNCHANGED <<hostsLeft, scan_tasks, inflight, results, batchStart,
                             probed, probeOrder, deadlineHit, finalTimedOut>>
         ELSE LET ip == Head(hostsLeft)
                  tasks == IF ip \notin local_ips THEN Append(scan_tasks, ip)
                           ELSE scan_tasks
              IN
              /\ scan_tasks' = tasks
              /\ IF ~BatchFull(tasks)
                   THEN /\ hostsLeft' = Tail(hostsLeft)
                        /\ UNCHANGED <<scanPc, inflight, results, batchStart, probed, probeOrder,
                                       deadlineHit, finalTimedOut>>
                   ELSE IF DeadlinePassed(now)
                   THEN /\ scanPc' = "net_loop"
                        /\ deadlineHit' = TRUE
                        /\ UNCHANGED finalTimedOut
                        /\ UNCHANGED <<hostsLeft, inflight, results, batchStart, probed, probeOrder>>
                   ELSE /\ scanPc' = "gather"
                        /\ hostsLeft' = Tail(hostsLeft)
                        /\ inflight' = TaskSet(tasks)
                        /\ probed' = probed \cup TaskSet(tasks)
                        /\ probeOrder' = probeOrder \o tasks
                        /\ results' = NoResults
                        /\ batchStart' = now
                        /\ UNCHANGED <<deadlineHit, finalTimedOut>>
    /\ UNCHANGED <<now, enumDone, networks_to_scan, local_ips, flowResult, pendingTasks, scanError, waitDeadline, discovered_devices,
                   discovery_done, sweeps, answered, latest>>

\* One probe of the batch being awaited returns: _scan_ip gives its record or
\* None.
ProbeReturn(ip, reply) ==
    /\ ip \in inflight
    /\ reply \in RepliesAt(ip, now - batchStart)
    /\ inflight' = inflight \ {ip}
    /\ results' = [results EXCEPT ![ip] = ScanIp(ip, reply)]
    /\ answered' = IF ScanIp(ip, reply) \in DeviceIds
                     THEN answered \cup {<<ip, ScanIp(ip, reply)>>}
                     ELSE answered
    /\ latest' = IF ScanIp(ip, reply) \in DeviceIds
                   THEN [latest EXCEPT ![ScanIp(ip, reply)] = ip]
                   ELSE latest
    /\ UNCHANGED <<scanPc, now, enumDone, networks_to_scan, local_ips, flowResult, pendingTasks, scanError, hostsLeft, scan_tasks,
                   batchStart, waitDeadline, discovered_devices, discovery_done, sweeps,
                   probed, probeOrder, deadlineHit, finalTimedOut>>

\* A tick passes while probes are in flight: no probe outlives its
\* SCAN_TIMEOUT and the wait_for of the last batch expires at its deadline.
Tick ==
    /\ inflight # {}
    /\ now - batchStart < SCAN_TIMEOUT
    /\ scanPc = "final_gather" => now < waitDeadline
    /\ now' = now + 1
    /\ UNCHANGED <<scanPc, enumDone, networks_to_scan, local_ips, flowResult, pendingTasks, scanError, hostsLeft, scan_tasks,
                   inflight, results, batchStart, waitDeadline, discovered_devices,
                   discovery_done, sweeps, probed, probeOrder, answered, latest, deadlineHit, finalTimedOut>>

\* asyncio.gather of a full batch returns: the results are recorded and
\* scan_tasks is emptied.  An exception of the record loop leaves the try
\* block: `except Exception` logs it and the scan is over.
GatherDone ==
    /\ scanPc = "gather"
    /\ inflight = {}
    /\ discovered_devices' = RecordResults(discovered_devices, scan_tasks, results)
    /\ IF RecordRaises(scan_tasks, results) = "none"
         THEN /\ scan_tasks' = <<>>
              /\ scanPc' = "host_loop"
              /\ UNCHANGED <<scanError, discovery_done, sweeps>>
         ELSE /\ scanError' = RecordRaises(scan_tasks, results)
              /\ ScanFinished
              /\ UNCHANGED scan_tasks
    /\ UNCHANGED <<now, enumDone, networks_to_scan, local_ips, flowResult, pendingTasks, hostsLeft, inflight,
                   results, batchStart, waitDeadline, probed, probeOrder, answered,
                   latest, deadlineHit, finalTimedOut>>

\* A mutated tail: the remaining probes are awaited whatever time is left and
\* without a timeout.
FinalStepIgnoresDeadline ==
    /\ scanPc = "final"
    /\ IF scan_tasks = <<>>
         THEN /\ ScanFinished
              /\ UNCHANGED <<inflight, results, batchStart, waitDeadline, probed, probeOrder,
                             deadlineHit, finalTimedOut>>
         ELSE /\ scanPc' = "final_gather"
              /\ inflight' = TaskSet(scan_tasks)
              /\ probed' = probed \cup TaskSet(scan_tasks)
              /\ probeOrder' = probeOrder \o scan_tasks
              /\ results' = NoResults
              /\ batchStart' = now
              /\ waitDeadline' = now + SCAN_TIMEOUT
              /\ UNCHANGED <<discovery_done, sweeps, deadlineHit, finalTimedOut>>
    /\ UNCHANGED <<now, enumDone, networks_to_scan, local_ips, flowResult, pendingTasks, scanError, hostsLeft, scan_tasks,
                   discovered_devices, answered, latest>>

\* "Process remaining tasks": what is left in scan_tasks is awaited under
\* asyncio.wait_for with the time remaining to the deadline, if any is left.
FinalStep ==
    /\ scanPc = "final"
    /\ IF scan_tasks = <<>>
         THEN /\ ScanFinished
              /\ UNCHANGED <<inflight, results, batchStart, waitDeadline, probed, probeOrder,
                             deadlineHit, finalTimedOut>>
         ELSE LET remaining_time == DISCOVERY_TIMEOUT - now IN
              IF remaining_time > 0
              THEN /\ scanPc' = "final_gather"
                   /\ inflight' = TaskSet(scan_tasks)
                   /\ probed' = probed \cup TaskSet(scan_tasks)
                   /\ probeOrder' = probeOrder \o scan_tasks
                   /\ results' = NoResults
                   /\ batchStart' = now
                   /\ waitDeadline' = now + remaining_time
                   /\ UNCHANGED <<discovery_done, sweeps, deadlineHit, finalTimedOut>>
              ELSE /\ ScanFinished
                   /\ deadlineHit' = TRUE
                   /\ UNCHANGED finalTimedOut
                   /\ UNCHANGED <<inflight, results, batchStart, waitDeadline, probed, probeOrder>>
    /\ UNCHANGED <<now, enumDone, networks_to_scan, local_ips, flowResult, pendingTasks, scanError, hostsLeft, scan_tasks,
                   discovered_devices, answered, latest>>

\* A mutated tail: the results of the last batch are not recorded.
FinalGatherDiscards ==
    /\ scanPc = "final_gather"
    /\ inflight = {}
    /\ ScanFinished
    /\ UNCHANGED <<now, enumDone, networks_to_scan, local_ips, flowResult, pendingTasks, scanError, hostsLeft, scan_tasks, inflight,
                   results, batchStart, waitDeadline, discovered_devices, probed, probeOrder,
                   answered, latest, deadlineHit, finalTimedOut>>

\* The gather of the last batch returns before wait_for's timeout: its
\* results are recorded, up to an exception of the record loop.
FinalGatherDone ==
    /\ scanPc = "final_gather"
    /\ inflight = {}
    /\ discovered_devices' = RecordResults(discovered_devices, scan_tasks, results)
    /\ scanError' = RecordRaises(scan_tasks, results)
    /\ ScanFinished
    /\ UNCHANGED <<now, enumDone, networks_to_scan, local_ips, flowResult, pendingTasks, hostsLeft, scan_tasks,
                   inflight, results, batchStart, waitDeadline, probed, probeOrder,
                   answered, latest, deadlineHit, finalTimedOut>>

\* A mutated timeout branch: TimeoutError ends the task before
\* _discovery_done is set.
FinalTimeoutLeavesUndone ==
    /\ scanPc = "final_gather"
    /\ inflight # {}
    /\ now = waitDeadline
    /\ inflight' = {}
    /\ deadlineHit' = TRUE
    /\ finalTimedOut' = TRUE
    /\ scanPc' = "done"
    /\ UNCHANGED <<now, enumDone, networks_to_scan, local_ips, flowResult, pendingTasks,
                   scanError, hostsLeft, scan_tasks, results, batchStart, waitDeadline,
                   discovered_devices, discovery_done, sweeps, probed, probeOrder,
                   answered, latest>>

\* wait_for's timeout expires with probes of the last batch still running:
\* the gather is cancelled, TimeoutError is caught and nothing of the batch
\* is recorded.
FinalTimeout ==
    /\ scanPc = "final_gather"
    /\ inflight # {}
    /\ now = waitDeadline
    /\ inflight' = {}
    /\ deadlineHit' = TRUE
    /\ finalTimedOut' = TRUE
    /\ ScanFinished
    /\ UNCHANGED <<now, enumDone, networks_to_scan, local_ips, flowResult, pendingTasks, scanError, hostsLeft, scan_tasks, results,
                   batchStart, waitDeadline, discovered_devices, probed, probeOrder, answered, latest>>

\* Largest number of scan tasks of one flow that exist at a time.
MaxScanTasks == 3

\* async_step_scan (async_step_user does nothing but call it): while
\* discovery is not done it creates a scan task and shows progress; once it is
\* done it closes the progress step towards the device selection if a device
\* was recorded and towards the manual entry otherwise.
StepScan ==
    /\ IF ~discovery_done
         THEN /\ pendingTasks + sweeps < MaxScanTasks
              /\ pendingTasks' = pendingTasks + 1
              /\ flowResult' = "progress"
         ELSE /\ flowResult' = IF DiscoveredIds # {} THEN "discovery" ELSE "manual"
              /\ UNCHANGED pendingTasks
    /\ UNCHANGED <<scanPc, now, enumDone, networks_to_scan, local_ips, hostsLeft,
                   scan_tasks, inflight, results, batchStart, waitDeadline,
                   discovered_devices, discovery_done, probed, answered, deadlineHit,
                   probeOrder, latest, finalTimedOut, scanError, sweeps>>

\* A scan task runs, the sweep taken as a whole: _discover_devices_http
\* returns at once if discovery is done and is in progress otherwise.
ScanTaskRun ==
    /\ pendingTasks > 0
    /\ pendingTasks' = pendingTasks - 1
    /\ sweeps' = IF discovery_done THEN sweeps ELSE sweeps + 1
    /\ UNCHANGED <<scanPc, now, enumDone, networks_to_scan, local_ips, hostsLeft,
                   scan_tasks, inflight, results, batchStart, waitDeadline,
                   discovered_devices, discovery_done, probed, answered, deadlineHit,
                   probeOrder, latest, finalTimedOut, scanError, flowResult>>

\* What a sweep taken as a whole may have recorded: for every device id no
\* entry or an address that reports this id.
SweepOutcomes ==
    {f \in [DeviceIds -> Addresses \cup {0}] :
        \A d \in DeviceIds : f[d] # 0 => DeviceIdAt[f[d]] = d}

\* A sweep in progress ends, taken as a whole: its records are in
\* discovered_devices and `finally` sets _discovery_done.
SweepEnd(found) ==
    /\ sweeps > 0
    /\ sweeps' = sweeps - 1
    /\ discovered_devices' = [d \in DeviceIds |->
                                IF found[d] # 0 THEN found[d] ELSE discovered_devices[d]]
    /\ discovery_done' = TRUE
    /\ UNCHANGED <<scanPc, now, enumDone, networks_to_scan, local_ips, hostsLeft,
                   scan_tasks, inflight, results, batchStart, waitDeadline, probed,
                   answered, deadlineHit, probeOrder, latest, finalTimedOut, scanError,
                   flowResult, pendingTasks>>

\* The flow before a scan: PicoWNeoPixelConfigFlow.__init__.
ScanIdle ==
    /\ scanPc = "idle"
    /\ now = 0
    /\ enumDone = 0
    /\ networks_to_scan = {}
    /\ local_ips = {}
    /\ scanError = "none"
    /\ hostsLeft = <<>>
    /\ scan_tasks = <<>>
    /\ inflight = {}
    /\ results = NoResults
    /\ batchStart = 0
    /\ waitDeadline = 0
    /\ discovered_devices = NoDevices
    /\ discovery_done = FALSE
    /\ probed = {}
    /\ answered = {}
    /\ deadlineHit = FALSE
    /\ probeOrder = <<>>
    /\ latest = NoDevices
    /\ finalTimedOut = FALSE
    /\ flowResult = "none"
    /\ pendingTasks = 0
    /\ sweeps = 0

\* A fresh flow, for every set of candidate networks and every set of own
\* addresses its scan will find.
ScanInit ==
    /\ scanPc = "idle"
    /\ now = 0
    /\ enumDone = 0
    /\ networks_to_scan \in SUBSET Networks
    /\ local_ips \in SUBSET OwnAddresses
    /\ scanError = "none"
    /\ hostsLeft = <<>>
    /\ scan_tasks = <<>>
    /\ inflight = {}
    /\ results = NoResults
    /\ batchStart = 0
    /\ waitDeadline = 0
    /\ discovered_devices = NoDevices
    /\ discovery_done = FALSE
    /\ probed = {}
    /\ answered = {}
    /\ deadlineHit = FALSE
    /\ probeOrder = <<>>
    /\ latest = NoDevices
    /\ finalTimedOut = FALSE
    /\ flowResult = "none"
    /\ pendingTasks = 0
    /\ sweeps = 0

-----------------------------------------------------------------------------
(* The light entity: PicoWNeoPixelLight.                                   *)
(*                                                                         *)
(* The entity reads the coordinator's snapshot through its properties and  *)
(* turns a service call into one command for async_send_command.           *)

\* Largest brightness on the consumer's scale and on the device's scale.
MaxBrightness == 255
MaxPercent == 100

\* const.py
EFFECT_STATIC == "static"
EFFECT_RAINBOW == "rainbow"
EffectNames == {EFFECT_STATIC, EFFECT_RAINBOW}

\* A key that is not there: in the snapshot (data is None, has no "state", or
\* the state lacks the key) or in kwargs or the command.
Absent == -1

\* The value of a property that is None.
PyNone == "None"

\* `int((brightness_percent / 100) * 255)`: int() truncates, and for every
\* percentage in 0..100 the float product truncates to the exact quotient.
ToConsumer(p) == (p * MaxBrightness) \div MaxPercent

\* A mutated conversion: the floor at 1 is missing.
ToDeviceNoFloor(b) == (b * MaxPercent) \div MaxBrightness

\* `max(1, int((brightness / 255) * 100))`: as above, the float product
\* truncates to the exact quotient for every brightness in 0..255.
ToDevice(b) ==
    LET brightness_percent == (b * MaxPercent) \div MaxBrightness
    IN IF brightness_percent < 1 THEN 1 ELSE brightness_percent

\* PicoWNeoPixelLight.brightness: 255 when the snapshot has no brightness.
Brightness(state) ==
    IF state.brightness = Absent THEN MaxBrightness ELSE ToConsumer(state.brightness)

\* A mutated property: the sentinel is passed through.
EffectPassesStatic(state) ==
    IF state.effect = "absent" THEN PyNone ELSE state.effect

\* PicoWNeoPixelLight.effect: None for the sentinel and when the snapshot has
\* no effect.
Effect(state) ==
    IF state.effect = "absent" THEN PyNone
    ELSE IF state.effect # EFFECT_STATIC THEN state.effect ELSE PyNone

NoKwargs == [brightness |-> Absent, effect |-> "absent", rgb_color |-> FALSE]

NoCall == [service |-> "none", kwargs |-> NoKwargs]

NoCommand == [power |-> "none", brightness |-> Absent, effect |-> "absent",
              speed |-> Absent, color |-> FALSE]

\* async_turn_on up to its await: the command is built from the keyword
\* arguments that are present.
TurnOn(kw) ==
    /\ lightPc = "idle"
    /\ call' = [service |-> "turn_on", kwargs |-> kw]
    /\ command' = [power |-> "on",
                   brightness |-> IF kw.brightness # Absent
                                    THEN ToDevice(kw.brightness) ELSE Absent,
                   effect |-> kw.effect,
                   speed |-> IF kw.effect # "absent" THEN 50 ELSE Absent,
                   color |-> kw.rgb_color]
    /\ lightPc' = "sent"
    /\ UNCHANGED lightState

\* async_turn_off up to its await.
TurnOff ==
    /\ lightPc = "idle"
    /\ call' = [service |-> "turn_off", kwargs |-> NoKwargs]
    /\ command' = [NoCommand EXCEPT !.power = "off"]
    /\ lightPc' = "sent"
    /\ UNCHANGED lightState

\* async_send_command returns: the device has applied the command and the
\* state block of its reply, which holds what was commanded, is the state of
\* the new snapshot.
CommandApplied ==
    /\ lightPc = "sent"
    /\ lightState' = [brightness |-> IF command.brightness # Absent
                                       THEN command.brightness
                                       ELSE lightState.brightness,
                      effect |-> IF command.effect # "absent"
                                   THEN command.effect
                                   ELSE lightState.effect]
    /\ lightPc' = "applied"
    /\ UNCHANGED <<call, command>>

\* The state blocks a snapshot can hold.
StateBlocks ==
    [brightness : (0..MaxPercent) \cup {Absent}, effect : EffectNames \cup {"absent"}]

\* The coordinator hands the entity a snapshot (CoordinatorEntity's update
\* listener): the properties are read from it from now on.
SnapshotUpdate(st) ==
    /\ lightPc = "idle"
    /\ lightState' = st
    /\ lightPc' = "updated"
    /\ UNCHANGED <<call, command>>

\* The entity as constructed: no call in progress, nothing read yet.
LightIdle ==
    /\ lightPc = "idle"
    /\ lightState = [brightness |-> Absent, effect |-> "absent"]
    /\ call = NoCall
    /\ command = NoCommand

\* The keyword arguments of light.turn_on.
TurnOnKwargs ==
    [brightness : (0..MaxBrightness) \cup {Absent},
     effect : EffectNames \cup {"absent"},
     rgb_color : BOOLEAN]

-----------------------------------------------------------------------------
(* The form steps of the config flow and validate_input.                   *)
(*                                                                         *)
(* The flow manager is the environment: it calls async_step_<step_id> of   *)
(* the step the flow is at, with the input of the async_configure call.    *)
(* A submitted form goes to the step its step_id names; after a            *)
(* progress_done result the step it names is called next.                  *)

\* `while try_count <= 3`
MaxTries == 3

\* The hosts a user types into the manual form.
InputHosts == {1, 2}

NoInput == [kind |-> "none", value |-> 0]

\* {CONF_HOST: h, CONF_PORT: DEFAULT_PORT}, the input of the manual form.
HostInput(h) == [kind |-> "host", value |-> h]

\* {"device": d}, the input of the device selection.
DeviceInput(d) == [kind |-> "device", value |-> d]

NoForm == [step_id |-> "none", shownBy |-> "none", errors |-> "none"]

NoEnd == [type |-> "none", host |-> 0]

\* The step_id each step gives the form it shows: async_step_manual shows its
\* form under "user", async_step_discovery under "discovery".
FormStepId(step) == IF step = "manual" THEN "user" ELSE "discovery"

\* What can happen to the GET /info of validate_input: a 200 whose JSON has a
\* "device" object, a 200 whose JSON object lacks "device", a 200 whose
\* "device" is no object, a non-200 status, a body with the wrong content
\* type, a body that is not JSON, a transport error, asyncio.timeout(10)
\* expiring.
ValidateReplies == {"ok", "ok_no_device", "ok_device_not_object", "bad_status",
                    "bad_content_type", "bad_json", "client_error", "timeout"}

\* validate_input: the exception raised inside the try block, "none" when the
\* return statement is reached.
ValidateRaises(reply) ==
    CASE reply = "ok" -> "none"
      [] reply = "ok_no_device" -> "CannotConnect"
      [] reply = "ok_device_not_object" -> "AttributeError"
      [] reply = "bad_status" -> "CannotConnect"
      [] reply = "bad_content_type" -> "ClientError"
      [] reply = "bad_json" -> "ValueError"
      [] reply = "client_error" -> "ClientError"
      [] reply = "timeout" -> "TimeoutError"

\* A mutated handler: a timeout is logged and the loop goes on to the next
\* attempt.
ValidateExceptRetriesTimeout(exc) ==
    CASE exc = "TimeoutError" -> "swallowed"
      [] exc = "ClientError" -> "CannotConnect"
      [] OTHER -> "UnknownError"

\* The except clauses of validate_input, in their order: what each raises.
\* CannotConnect is an Exception and neither a TimeoutError nor a
\* ClientError, so the CannotConnect raised inside the try block is caught by
\* `except Exception`.
ValidateExcept(exc) ==
    CASE exc = "TimeoutError" -> "CannotConnect"
      [] exc = "ClientError" -> "CannotConnect"
      [] OTHER -> "UnknownError"

\* errors["base"] the calling step sets for each exception of validate_input.
ErrorBase(raised) ==
    CASE raised = "CannotConnect" -> "cannot_connect"
      [] raised = "UnknownError" -> "unknown"

\* validate_input up to its first await: try_count = 1, the loop is entered
\* and the GET is sent.
ValidateStart(caller, host) ==
    /\ valHost' = host
    /\ valCaller' = caller
    /\ try_count' = 1
    /\ valGets' = 1
    /\ valReply' = "none"
    /\ valResult' = "pending"
    /\ flowPc' = "validate"

\* async_show_form of the step `step` with errors["base"] = err.
ShowForm(step, err) ==
    /\ form' = [step_id |-> FormStepId(step), shownBy |-> step, errors |-> err]
    /\ flowPc' = "rest"
    /\ userInput' = NoInput

\* An exception leaves the step: the flow manager reports it and the call is
\* over.
StepRaises ==
    /\ flowEnd' = [type |-> "error", host |-> 0]
    /\ flowPc' = "ended"
    /\ userInput' = NoInput
    /\ UNCHANGED <<form, valHost, valCaller, try_count, valGets, valReply, valResult>>

\* async_step_manual(user_input): without input the form is shown, with input
\* validate_input is awaited on it.
StepManual(input) ==
    /\ IF input = NoInput
         THEN /\ ShowForm("manual", "none")
              /\ UNCHANGED <<valHost, valCaller, try_count, valGets, valReply, valResult,
                             flowEnd>>
         ELSE IF input.kind = "host"
         THEN /\ ValidateStart("manual", input.value)
              /\ userInput' = input
              /\ UNCHANGED <<form, flowEnd>>
         ELSE StepRaises
    /\ UNCHANGED scanVars

\* async_step_discovery(user_input) up to its first await or its return: with
\* input the selected device is looked up and asyncio.sleep(2) is awaited;
\* without input the selection is shown, or, with nothing to select,
\* async_step_user is called.  user_input["device"] raises KeyError on an
\* input that has no such key.
StepDiscovery(input) ==
    IF input = NoInput
      THEN IF DiscoveredIds # {}
             THEN /\ ShowForm("discovery", "none")
                  /\ UNCHANGED <<valHost, valCaller, try_count, valGets, valReply,
                                 valResult, flowEnd>>
                  /\ UNCHANGED scanVars
             ELSE /\ StepScan
                  /\ flowPc' = IF discovery_done THEN "next_step" ELSE "rest"
                  /\ form' = NoForm
                  /\ userInput' = NoInput
                  /\ UNCHANGED <<valHost, valCaller, try_count, valGets, valReply,
                                 valResult, flowEnd>>
      ELSE IF input.kind = "device" /\ input.value \in DiscoveredIds
      THEN /\ valHost' = discovered_devices[input.value]
           /\ valCaller' = "discovery"
           /\ flowPc' = "sleep"
           /\ userInput' = input
           /\ UNCHANGED <<form, try_count, valGets, valReply, valResult, flowEnd>>
           /\ UNCHANGED scanVars
      ELSE StepRaises /\ UNCHANGED scanVars

\* asyncio.sleep(2) of async_step_discovery returns and validate_input is
\* awaited on the device that was looked up.
SleepDone ==
    /\ flowPc = "sleep"
    /\ ValidateStart("discovery", valHost)
    /\ UNCHANGED <<form, userInput, flowEnd>>
    /\ UNCHANGED scanVars

\* The GET of validate_input is over with `reply`.  The function returns the
\* info record or an except clause raises, `finally` counts the attempt, and
\* the calling step goes on: the entry is created (or the flow aborted when
\* the device id is configured already), or the step's form is shown again
\* with the error.  Were the exception swallowed, the loop would go on while
\* try_count <= 3 and the function would then fall out of it, returning None.
ValidateReply(reply, configured) ==
    /\ flowPc = "validate"
    /\ valReply' = reply
    /\ try_count' = try_count + 1
    /\ LET exc == ValidateRaises(reply)
           out == IF exc = "none" THEN "info" ELSE ValidateExcept(exc)
       IN IF out = "swallowed"
            THEN IF try_count + 1 <= MaxTries
                   THEN /\ valGets' = valGets + 1
                        /\ UNCHANGED <<form, userInput, flowPc, valResult, flowEnd>>
                   ELSE /\ valResult' = "None"
                        /\ flowEnd' = [type |-> "error", host |-> 0]
                        /\ flowPc' = "ended"
                        /\ userInput' = NoInput
                        /\ UNCHANGED <<form, valGets>>
            ELSE /\ valResult' = out
                 /\ UNCHANGED valGets
                 /\ IF out = "info"
                      THEN /\ flowEnd' = IF configured
                                           THEN [type |-> "abort", host |-> 0]
                                           ELSE [type |-> "create_entry", host |-> valHost]
                           /\ flowPc' = "ended"
                           /\ userInput' = NoInput
                           /\ UNCHANGED form
                      ELSE /\ ShowForm(valCaller, ErrorBase(out))
                           /\ UNCHANGED flowEnd
    /\ UNCHANGED <<valHost, valCaller>>
    /\ UNCHANGED scanVars

\* async_configure without input while the flow is at its first step or at
\* the progress step: async_step_user, which calls async_step_scan, or
\* async_step_scan itself.
FlowConfigure ==
    /\ flowPc = "rest"
    /\ form = NoForm
    /\ StepScan
    /\ flowPc' = IF discovery_done THEN "next_step" ELSE "rest"
    /\ userInput' = NoInput
    /\ UNCHANGED <<form, valHost, valCaller, try_count, valGets, valReply, valResult,
                   flowEnd>>

\* The step named by progress_done is called.  Which input the flow manager
\* hands it is the manager's business: the input of the call in progress, or
\* none.
FlowNextStep(input) ==
    /\ flowPc = "next_step"
    /\ input \in {userInput, NoInput}
    /\ IF flowResult = "manual" THEN StepManual(input) ELSE StepDiscovery(input)

\* The inputs the shown form accepts (its data_schema).
FormInputs ==
    IF form.shownBy = "manual" THEN {HostInput(h) : h \in InputHosts}
    ELSE {DeviceInput(d) : d \in DiscoveredIds}

\* The user submits the shown form: the step its step_id names is called with
\* the input.  async_step_user ignores its argument and calls
\* async_step_scan().
FlowSubmit(input) ==
    /\ flowPc = "rest"
    /\ form # NoForm
    /\ input \in FormInputs
    /\ IF form.step_id = "user"
         THEN /\ StepScan
              /\ flowPc' = IF discovery_done THEN "next_step" ELSE "rest"
              /\ userInput' = input
              /\ form' = NoForm
              /\ UNCHANGED <<valHost, valCaller, try_count, valGets, valReply, valResult,
                             flowEnd>>
         ELSE StepDiscovery(input)

\* The flow as constructed: no form shown, no call in progress.
EntryIdle ==
    /\ form = NoForm
    /\ userInput = NoInput
    /\ flowPc = "rest"
    /\ valHost = 0
    /\ valCaller = "none"
    /\ try_count = 0
    /\ valGets = 0
    /\ valReply = "none"
    /\ valResult = "none"
    /\ flowEnd = NoEnd

-----------------------------------------------------------------------------
(* The interface enumeration of the scan: from the adapters to             *)
(* networks_to_scan and local_ips.                                         *)
(*                                                                         *)
(* An IPv4 address is a number of AddrBits bits whose leading OctetBits    *)
(* bits are its first octet (8 of 32 bits in the source): "127." and       *)
(* "172." are tests of the first octet, ipaddress.ip_network masks the     *)
(* address to the prefix length.                                           *)

\* Width of the first octet and of the rest of an address.
OctetBits == 3
RestBits == 2

AddrBits == OctetBits + RestBits

IPs == 0..(2^AddrBits - 1)

FirstOctet(a) == a \div 2^RestBits

\* The first octets of "127.", of "172." and of the common home networks
\* ("192." and "10.").
LoopbackOctet == 3
BridgeOctet == 5
HomeOctet == 6
OtherHomeOctet == 1

\* An ip_info without "address"; an ip_info without "network_prefix".
NoAddress == -1
NoPrefix == -1

\* `ip_info.get("network_prefix", 24)`: a prefix that keeps the first octet
\* and leaves room for hosts.
DefaultPrefix == OctetBits

\* A mutated test: loopback addresses are treated as any other.
IsLoopbackNever(a) == FALSE

\* `address.startswith("127.")`
IsLoopback(a) == FirstOctet(a) = LoopbackOctet

\* `address.startswith("172.")`
IsBridge(a) == FirstOctet(a) = BridgeOctet

\* ipaddress.ip_network(f"{address}/{network_prefix}", strict=False): the
\* address with its host bits cleared.  A prefix outside 0..AddrBits raises
\* ValueError.
ValidPrefix(prefix) == prefix \in 0..AddrBits

IpNetwork(a, prefix) ==
    LET size == 2^(AddrBits - prefix)
    IN [addr |-> (a \div size) * size, prefix |-> prefix]

\* A mutated test: no network is taken for a bridge network.
NetworkIsBridgeNever(net) == FALSE

\* `str(network_obj).startswith("172.")`: the first octet of the network
\* address.
NetworkIsBridge(net) == FirstOctet(net.addr) = BridgeOctet

\* All addresses of a network.
NetAddrs(net) == net.addr..(net.addr + 2^(AddrBits - net.prefix) - 1)

\* network_obj.hosts(): all addresses but the network address and the
\* broadcast address; both addresses of a network of two, the address of a
\* network of one.
NetHosts(net) ==
    IF net.prefix >= AddrBits - 1 THEN NetAddrs(net)
    ELSE NetAddrs(net) \ {net.addr, net.addr + 2^(AddrBits - net.prefix) - 1}

\* common_networks, on this scale: the home networks of the two home octets.
CommonNetworks ==
    {IpNetwork(HomeOctet * 2^RestBits, DefaultPrefix),
     IpNetwork(OtherHomeOctet * 2^RestBits, DefaultPrefix)}

\* The body of `for ip_info in adapter["ipv4"]` for one ip_info: an address
\* that is missing or loopback is skipped; the address is appended to
\* local_ips, a bridge address sets is_docker, and the network of the address
\* is added unless it is a bridge network or cannot be parsed.
EnumEntry(acc, ip_info) ==
    IF ip_info.address = NoAddress \/ IsLoopback(ip_info.address) THEN acc
    ELSE LET network_prefix == IF ip_info.network_prefix = NoPrefix THEN DefaultPrefix
                               ELSE ip_info.network_prefix
             network_obj == IpNetwork(ip_info.address, network_prefix)
         IN [local_ips |-> acc.local_ips \cup {ip_info.address},
             is_docker |-> acc.is_docker \/ IsBridge(ip_info.address),
             networks |-> IF ValidPrefix(network_prefix) /\ ~NetworkIsBridge(network_obj)
                            THEN acc.networks \cup {network_obj}
                            ELSE acc.networks]

RECURSIVE EnumEntries(_, _)
\* `for ip_info in adapter["ipv4"]`
EnumEntries(acc, ipv4) ==
    IF ipv4 = <<>> THEN acc
    ELSE EnumEntries(EnumEntry(acc, Head(ipv4)), Tail(ipv4))

RECURSIVE EnumAdapters(_, _)
\* `for adapter in adapters`: a disabled adapter is skipped.
EnumAdapters(acc, ads) ==
    IF ads = <<>> THEN acc
    ELSE EnumAdapters(IF ~Head(ads).enabled THEN acc
                      ELSE EnumEntries(acc, Head(ads).ipv4),
                      Tail(ads))

\* A mutated test: the common networks are added whenever a bridge address
\* was seen.
UseCommonAlways(docker, nets) == docker

\* `if is_docker and not networks_to_scan`
UseCommon(docker, nets) == docker /\ nets = {}

\* network.async_get_adapters returns and the function runs without
\* suspending up to the loop over the networks: the adapters are enumerated,
\* the common networks are added in their case, and with no network to scan
\* the function returns.
EnumReturn ==
    /\ scanPc = "adapters"
    /\ LET r == EnumAdapters([local_ips |-> {}, is_docker |-> FALSE, networks |-> {}],
                             adapters)
           common == UseCommon(r.is_docker, r.networks)
           nets == IF common THEN r.networks \cup CommonNetworks ELSE r.networks
       IN /\ local_ips' = r.local_ips
          /\ is_docker' = r.is_docker
          /\ common_added' = common
          /\ networks_to_scan' = nets
          /\ candidates' = nets
          /\ IF nets = {}
               THEN ScanFinished
               ELSE scanPc' = "net_loop" /\ UNCHANGED <<discovery_done, sweeps>>
    /\ scan_tasks' = <<>>
    /\ UNCHANGED <<now, enumDone, hostsLeft, inflight, results, batchStart, waitDeadline,
                   discovered_devices, probed, answered, deadlineHit, probeOrder, latest,
                   finalTimedOut, scanError, flowResult, pendingTasks, adapters>>

\* One turn of `for network_obj in networks_to_scan`, its batches taken as a
\* whole: every host of the network that is not in local_ips is probed.
EnumProbe(n) ==
    /\ scanPc = "net_loop"
    /\ n \in networks_to_scan
    /\ networks_to_scan' = networks_to_scan \ {n}
    /\ probed' = probed \cup (NetHosts(n) \ local_ips)
    /\ UNCHANGED <<scanPc, now, enumDone, local_ips, hostsLeft, scan_tasks, inflight,
                   results, batchStart, waitDeadline, discovered_devices, discovery_done,
                   answered, deadlineHit, probeOrder, latest, finalTimedOut, scanError,
                   flowResult, pendingTasks, sweeps>>
    /\ UNCHANGED enumVars

\* The deadline test ends the loop over the networks before its end.
EnumDeadline ==
    /\ scanPc = "net_loop"
    /\ networks_to_scan # {}
    /\ deadlineHit' = TRUE
    /\ ScanFinished
    /\ UNCHANGED <<now, enumDone, networks_to_scan, local_ips, hostsLeft, scan_tasks,
                   inflight, results, batchStart, waitDeadline, discovered_devices,
                   probed, answered, probeOrder, latest, finalTimedOut, scanError,
                   flowResult, pendingTasks>>
    /\ UNCHANGED enumVars

\* The loop over the networks is over and the function reaches its end.
EnumEnd ==
    /\ scanPc = "net_loop"
    /\ networks_to_scan = {}
    /\ ScanFinished
    /\ UNCHANGED <<now, enumDone, networks_to_scan, local_ips, hostsLeft, scan_tasks,
                   inflight, results, batchStart, waitDeadline, discovered_devices,
                   probed, answered, deadlineHit, probeOrder, latest, finalTimedOut,
                   scanError, flowResult, pendingTasks>>
    /\ UNCHANGED enumVars

\* The ip_info records of an adapter: any address or none, any prefix length,
\* one that cannot be parsed, or none.
IpInfos == [address : IPs \cup {NoAddress},
            network_prefix : (0..(AddrBits + 1)) \cup {NoPrefix}]

\* Some of them: a loopback address, a bridge address, a home address, each
\* with the default prefix, and a record without address.
SomeIpInfos ==
    {[address |-> LoopbackOctet * 2^RestBits + 1, network_prefix |-> NoPrefix],
     [address |-> BridgeOctet * 2^RestBits + 2, network_prefix |-> NoPrefix],
     [address |-> HomeOctet * 2^RestBits + 1, network_prefix |-> DefaultPrefix],
     [address |-> NoAddress, network_prefix |-> NoPrefix]}

\* What network.async_get_adapters can return: no adapter, an adapter without
\* addresses, one adapter with one or two addresses, two adapters.
AdapterInputs ==
    {<<>>}
    \cup {<<[enabled |-> en, ipv4 |-> <<>>]>> : en \in BOOLEAN}
    \cup {<<[enabled |-> en, ipv4 |-> <<e>>]>> : en \in BOOLEAN, e \in IpInfos}
    \cup {<<[enabled |-> TRUE, ipv4 |-> <<e1, e2>>]>> : e1 \in SomeIpInfos, e2 \in IpInfos}
    \cup {<<[enabled |-> en1, ipv4 |-> <<e1>>], [enabled |-> en2, ipv4 |-> <<e2>>]>> :
            en1 \in BOOLEAN, en2 \in BOOLEAN, e1 \in IpInfos, e2 \in SomeIpInfos}

\* A fresh flow, for every answer of the interface enumeration.
EnumInit ==
    /\ adapters \in AdapterInputs
    /\ is_docker = FALSE
    /\ common_added = FALSE
    /\ candidates = {}

\* No enumeration has run.
EnumIdle ==
    /\ adapters = <<>>
    /\ is_docker = FALSE
    /\ common_added = FALSE
    /\ candidates = {}

\* The enumeration's result is given: the networks the scan starts from.
EnumGiven ==
    /\ adapters = <<>>
    /\ is_docker = FALSE
    /\ common_added = FALSE
    /\ candidates = networks_to_scan

-----------------------------------------------------------------------------
(* Unload and reload of the config entry.                                  *)

NoUnload == [by |-> "none", ok |-> FALSE]

Unloaders == {"unload", "reload"}

\* async_unload_entry is entered, called by Home Assistant ("unload") or by
\* async_reload_entry ("reload"), and awaits async_unload_platforms.  The
\* entry is loaded and at rest: no poll cycle and no command is in flight.
UnloadStart(by) ==
    /\ by \in Unloaders
    /\ phase = "loaded"
    /\ pollPc = "idle"
    /\ cmdPc = "idle"
    /\ by = "reload" => coordId < MaxSetups
    /\ phase' = "unloading"
    /\ unloadResult' = [by |-> by, ok |-> FALSE]
    /\ UNCHANGED <<available, data, pollPc, pollState, cmdPc, cmdReqs, coordId, hassData,
                   forwarded, setupResult, hist, last>>

\* async_unload_platforms returns unload_ok.  When it is true the platform's
\* entities are gone and async_unload_entry pops the coordinator from
\* hass.data[DOMAIN]; it returns unload_ok.  Called by Home Assistant, the
\* entry is then not loaded, or has failed to unload.  Called by
\* async_reload_entry, async_setup_entry follows without suspending: a fresh
\* coordinator is constructed and its first refresh sends GET /state.
UnloadDone(unload_ok) ==
    /\ phase = "unloading"
    /\ unloadResult' = [unloadResult EXCEPT !.ok = unload_ok]
    /\ hassData' = IF unload_ok THEN 0 ELSE hassData
    /\ forwarded' = IF unload_ok THEN FALSE ELSE forwarded
    /\ IF unloadResult.by = "reload"
         THEN /\ coordId' = coordId + 1
              /\ phase' = "first_refresh"
              /\ available' = TRUE
              /\ data' = NoData
              /\ pollPc' = "state"
              /\ pollState' = Null
              /\ setupResult' = "pending"
              /\ hist' = NoHist
              /\ last' = NoAttempt
         ELSE /\ phase' = IF unload_ok THEN "not_loaded" ELSE "failed_unload"
              /\ UNCHANGED <<available, data, pollPc, pollState, coordId, setupResult,
                             hist, last>>
    /\ UNCHANGED <<cmdPc, cmdReqs>>

LifeIdle == unloadResult = NoUnload

-----------------------------------------------------------------------------

Init == CoordInit /\ ScanIdle /\ LightIdle /\ EntryIdle /\ EnumIdle /\ LifeIdle

Next ==
    \/ SetupStart /\ UNCHANGED <<scanVars, lightVars, entryVars, enumVars, lifeVars>>
    \/ PollStart /\ UNCHANGED <<scanVars, lightVars, entryVars, enumVars, lifeVars>>
    \/ \E b \in StateBodies : PollStateOk(b) /\ UNCHANGED <<scanVars, lightVars, entryVars, enumVars, lifeVars>>
    \/ \E k \in GetFailures : PollStateFail(k) /\ UNCHANGED <<scanVars, lightVars, entryVars, enumVars, lifeVars>>
    \/ \E b \in InfoBodies : PollCommit(b) /\ UNCHANGED <<scanVars, lightVars, entryVars, enumVars, lifeVars>>
    \/ \E k \in GetFailures : PollInfoFail(k) /\ UNCHANGED <<scanVars, lightVars, entryVars, enumVars, lifeVars>>
    \/ ForwardPlatforms /\ UNCHANGED <<scanVars, lightVars, entryVars, enumVars, lifeVars>>
    \/ CmdStart /\ UNCHANGED <<scanVars, lightVars, entryVars, enumVars, lifeVars>>
    \/ \E b \in StateBodies : CmdOkState(b) /\ UNCHANGED <<scanVars, lightVars, entryVars, enumVars, lifeVars>>
    \/ CmdOkNoState /\ UNCHANGED <<scanVars, lightVars, entryVars, enumVars, lifeVars>>
    \/ \E k \in PostFailures : CmdFail(k) /\ UNCHANGED <<scanVars, lightVars, entryVars, enumVars, lifeVars>>

\* The coordinator of one config entry, from its setup on.
Spec == Init /\ [][Next]_vars

InitScan == CoordInit /\ ScanInit /\ LightIdle /\ EntryIdle /\ EnumGiven /\ LifeIdle

NextScan ==
    \/ /\ pendingTasks = 0 /\ sweeps = 0
       /\ StepScan /\ UNCHANGED <<coordVars, lightVars, entryVars, enumVars, lifeVars>>
    \/ ScanStart /\ UNCHANGED <<coordVars, lightVars, entryVars, enumVars, lifeVars>>
    \/ \E d \in 0..MaxEnumTicks : AdaptersReturn(d) /\ UNCHANGED <<coordVars, lightVars, entryVars, enumVars, lifeVars>>
    \/ NetNext /\ UNCHANGED <<coordVars, lightVars, entryVars, enumVars, lifeVars>>
    \/ HostNext /\ UNCHANGED <<coordVars, lightVars, entryVars, enumVars, lifeVars>>
    \/ \E ip \in Addresses, r \in ProbeReplies : ProbeReturn(ip, r) /\ UNCHANGED <<coordVars, lightVars, entryVars, enumVars, lifeVars>>
    \/ Tick /\ UNCHANGED <<coordVars, lightVars, entryVars, enumVars, lifeVars>>
    \/ GatherDone /\ UNCHANGED <<coordVars, lightVars, entryVars, enumVars, lifeVars>>
    \/ FinalStep /\ UNCHANGED <<coordVars, lightVars, entryVars, enumVars, lifeVars>>
    \/ FinalGatherDone /\ UNCHANGED <<coordVars, lightVars, entryVars, enumVars, lifeVars>>
    \/ FinalTimeout /\ UNCHANGED <<coordVars, lightVars, entryVars, enumVars, lifeVars>>

\* One discovery scan of a config flow: async_step_scan is called when the
\* flow starts and again when its scan task is over.
SpecScan == InitScan /\ [][NextScan]_vars

\* The event loop runs every task that can run, every awaited call returns
\* and time passes.
SpecScanFair == SpecScan /\ WF_vars(NextScan)

InitFlow == CoordInit /\ ScanIdle /\ LightIdle /\ EntryIdle /\ EnumIdle /\ LifeIdle

NextFlow ==
    \/ FlowConfigure /\ UNCHANGED <<coordVars, lightVars, enumVars, lifeVars>>
    \/ \E input \in {userInput, NoInput} :
            FlowNextStep(input) /\ UNCHANGED <<coordVars, lightVars, enumVars, lifeVars>>
    \/ \E h \in InputHosts : FlowSubmit(HostInput(h))
                              /\ UNCHANGED <<coordVars, lightVars, enumVars, lifeVars>>
    \/ \E d \in DeviceIds : FlowSubmit(DeviceInput(d))
                             /\ UNCHANGED <<coordVars, lightVars, enumVars, lifeVars>>
    \/ SleepDone /\ UNCHANGED <<coordVars, lightVars, enumVars, lifeVars>>
    \/ \E r \in ValidateReplies, c \in BOOLEAN :
            ValidateReply(r, c) /\ UNCHANGED <<coordVars, lightVars, enumVars, lifeVars>>
    \/ ScanTaskRun /\ UNCHANGED <<coordVars, lightVars, entryVars, enumVars, lifeVars>>
    \/ \E found \in SweepOutcomes : SweepEnd(found) /\ UNCHANGED <<coordVars, lightVars, entryVars, enumVars, lifeVars>>

\* The steps of a config flow called at any time, each sweep taken as a whole.
SpecFlow == InitFlow /\ [][NextFlow]_vars

InitEnum == CoordInit /\ ScanIdle /\ LightIdle /\ EntryIdle /\ EnumInit /\ LifeIdle

NextEnum ==
    \/ /\ pendingTasks = 0 /\ sweeps = 0
       /\ StepScan /\ UNCHANGED <<coordVars, lightVars, entryVars, enumVars, lifeVars>>
    \/ ScanStart /\ UNCHANGED <<coordVars, lightVars, entryVars, enumVars, lifeVars>>
    \/ EnumReturn /\ UNCHANGED <<coordVars, lightVars, entryVars, lifeVars>>
    \/ \E n \in networks_to_scan :
            EnumProbe(n) /\ UNCHANGED <<coordVars, lightVars, entryVars, lifeVars>>
    \/ EnumDeadline /\ UNCHANGED <<coordVars, lightVars, entryVars, lifeVars>>
    \/ EnumEnd /\ UNCHANGED <<coordVars, lightVars, entryVars, lifeVars>>

\* One discovery scan from the interface enumeration on, the batches of each
\* network taken as a whole.
SpecEnum == InitEnum /\ [][NextEnum]_vars

\* The life of one config entry: setup, polling, commands, unload and reload.
\* async_forward_entry_setups sets a platform up that is not set up yet.
InitLife == CoordInit /\ ScanIdle /\ LightIdle /\ EntryIdle /\ EnumIdle /\ LifeIdle

NextLife ==
    \/ SetupStart /\ UNCHANGED <<scanVars, lightVars, entryVars, enumVars, lifeVars>>
    \/ PollStart /\ UNCHANGED <<scanVars, lightVars, entryVars, enumVars, lifeVars>>
    \/ \E b \in StateBodies : PollStateOk(b) /\ UNCHANGED <<scanVars, lightVars, entryVars, enumVars, lifeVars>>
    \/ \E k \in GetFailures : PollStateFail(k) /\ UNCHANGED <<scanVars, lightVars, entryVars, enumVars, lifeVars>>
    \/ \E b \in InfoBodies : PollCommit(b) /\ UNCHANGED <<scanVars, lightVars, entryVars, enumVars, lifeVars>>
    \/ \E k \in GetFailures : PollInfoFail(k) /\ UNCHANGED <<scanVars, lightVars, entryVars, enumVars, lifeVars>>
    \/ ~forwarded /\ ForwardPlatforms /\ UNCHANGED <<scanVars, lightVars, entryVars, enumVars, lifeVars>>
    \/ CmdStart /\ UNCHANGED <<scanVars, lightVars, entryVars, enumVars, lifeVars>>
    \/ \E b \in StateBodies : CmdOkState(b) /\ UNCHANGED <<scanVars, lightVars, entryVars, enumVars, lifeVars>>
    \/ CmdOkNoState /\ UNCHANGED <<scanVars, lightVars, entryVars, enumVars, lifeVars>>
    \/ \E k \in PostFailures : CmdFail(k) /\ UNCHANGED <<scanVars, lightVars, entryVars, enumVars, lifeVars>>
    \/ \E by \in Unloaders : UnloadStart(by) /\ UNCHANGED <<scanVars, lightVars, entryVars, enumVars>>
    \/ \E ok \in BOOLEAN : UnloadDone(ok) /\ UNCHANGED <<scanVars, lightVars, entryVars, enumVars>>

SpecLife == InitLife /\ [][NextLife]_vars

InitLight == CoordInit /\ ScanIdle /\ LightIdle /\ EntryIdle /\ EnumIdle /\ LifeIdle

NextLight ==
    \/ \E st \in StateBlocks : SnapshotUpdate(st) /\ UNCHANGED <<coordVars, scanVars, entryVars, enumVars, lifeVars>>
    \/ \E kw \in TurnOnKwargs : TurnOn(kw) /\ UNCHANGED <<coordVars, scanVars, entryVars, enumVars, lifeVars>>
    \/ TurnOff /\ UNCHANGED <<coordVars, scanVars, entryVars, enumVars, lifeVars>>
    \/ CommandApplied /\ UNCHANGED <<coordVars, scanVars, entryVars, enumVars, lifeVars>>

\* The light entity receiving one snapshot or serving one service call, for
\* every snapshot and every call.
SpecLight == InitLight /\ [][NextLight]_vars

-----------------------------------------------------------------------------
(* Properties of the coordinator and of the entry setup.                   *)

\* C1: once a communication attempt has finished, the availability flag is
\* true exactly when the attempt that finished last, poll or command,
\* succeeded.
C1_AvailableIffLastAttemptSucceeded ==
    last.kind # "none" => (available <=> last.ok)

\* C2: a poll cycle that fails on GET /state or on GET /info sets the
\* availability flag to false, raises UpdateFailed and changes nothing of the
\* cached snapshot: it is what it was before the cycle (None when nothing was
\* cached) unless a command stored a snapshot while the cycle was in flight,
\* and then it is that snapshot; it never holds one block without the other.
C2_FailedPollKeepsSnapshot ==
    (last.kind = "poll" /\ ~last.ok) =>
        /\ ~available
        /\ last.raised = "UpdateFailed"
        /\ data = last.before
        /\ (~last.crossed => data = last.atStart)
        /\ (data = NoData \/ (data.state # Null /\ data.info # Null))

\* A poll cycle whose GET /state answered and whose GET /info failed has just
\* finished, with a snapshot cached and the device available before it.
C2_Witness ==
    /\ last.kind = "poll" /\ ~last.ok
    /\ ~last.crossed
    /\ last.state # Null
    /\ last.reqs.gets = 2
    /\ last.before # NoData
    /\ last.availBefore

\* C3: a poll cycle whose GET /state and GET /info both answered 200 with
\* JSON sets the availability flag to true and caches exactly the body of
\* /state as "state" and the body of /info as "info".
C3_SuccessfulPollCachesMergedBodies ==
    (last.kind = "poll" /\ last.ok) =>
        /\ available
        /\ data = [state |-> last.state, info |-> last.info]

\* A successful poll cycle has just replaced a different snapshot while the
\* device was marked unavailable.
C3_Witness ==
    /\ last.kind = "poll" /\ last.ok
    /\ ~last.availBefore
    /\ last.before # NoData
    /\ last.before.state # last.state
    /\ last.before.info # last.info

\* C4: after any communication that succeeded while the coordinator was
\* unavailable, a poll cycle or a command answered 200, the coordinator is
\* available again.
C4_SuccessRestoresAvailability ==
    (last.kind # "none" /\ last.ok /\ ~last.availBefore) => available

C6_CommandUpdatesStateOnly ==
    (last.kind = "command" /\ last.ok /\ last.state # Null) =>
        /\ last.reqs = [posts |-> 1, gets |-> 0]
        /\ data.state = last.state
        /\ data.info = last.before.info
        /\ (~last.crossed => data.info = last.atStart.info)
        /\ data.info # Null

\* A command answered 200 with a state block different from the cached one
\* has just been processed.
C6_Witness ==
    /\ last.kind = "command" /\ last.ok
    /\ last.state # Null
    /\ last.before.state # last.state
    /\ ~last.crossed
    /\ cmdPc = "idle"

\* C7: when the first refresh of async_setup_entry fails, setup ends with
\* ConfigEntryNotReady, the coordinator it constructed is not stored in
\* hass.data[DOMAIN] and no platform has been forwarded.
C7_FailedFirstRefreshAbortsSetup ==
    /\ (phase = "not_ready" <=> setupResult = "ConfigEntryNotReady")
    /\ (setupResult = "ConfigEntryNotReady" =>
            /\ last.kind = "poll" /\ ~last.ok
            /\ hassData # coordId
            /\ ~forwarded)
    /\ ((phase \in {"first_refresh", "not_ready"}) => hassData # coordId)

\* The first refresh of a second setup attempt has failed on GET /info.
C7_Witness ==
    /\ setupResult = "ConfigEntryNotReady"
    /\ coordId = 2
    /\ last.reqs.gets = 2

\* C17: under every interleaving of poll cycles and commands the snapshot is
\* None or holds both a state block and an info block, and it changes only in
\* the one step that ends an operation: a poll cycle stores the two bodies it
\* fetched, a command stores the state block of its reply with the info block
\* cached at that moment.  Nothing an operation in progress has fetched is
\* visible in the snapshot.
C17_SnapshotIsWhole ==
    /\ [](data = NoData \/ (data.state # Null /\ data.info # Null))
    /\ [][data' # data =>
            \/ /\ pollPc = "info" /\ pollPc' = "idle"
               /\ data' = [state |-> pollState, info |-> last'.info]
               /\ last'.kind = "poll" /\ last'.ok
            \/ /\ cmdPc = "post" /\ cmdPc' = "idle"
               /\ data' = [state |-> last'.state, info |-> data.info]
               /\ last'.kind = "command" /\ last'.ok]_vars

\* A command has stored its snapshot while a poll cycle that already holds a
\* different state block awaits GET /info: the snapshot is the command's.
C17_Witness ==
    /\ pollPc = "info" /\ phase = "loaded"
    /\ last.kind = "command" /\ last.ok
    /\ hist.pollCrossed
    /\ pollState # Null /\ pollState # data.state
    /\ data = [state |-> last.state, info |-> last.before.info]

-----------------------------------------------------------------------------
(* Properties of the discovery scan.                                       *)

\* C8: at every point of a scan at most MAX_PARALLEL_SCANS probes are in
\* flight: a batch never holds more probes than that, and the probes in
\* flight all belong to the one batch being awaited.
C8_InFlightProbesBounded ==
    /\ Cardinality(inflight) <= MAX_PARALLEL_SCANS
    /\ Len(scan_tasks) <= MAX_PARALLEL_SCANS
    /\ inflight \subseteq TaskSet(scan_tasks)
    /\ (inflight # {} => scanPc \in {"gather", "final_gather"})

\* A full batch is in flight that spans the boundary between the two networks
\* and was collected past a skipped own address.
C8_Witness ==
    /\ scanPc = "gather"
    /\ inflight = {1, 3, 4}
    /\ local_ips = {2, 5}
    /\ Cardinality(inflight) = MAX_PARALLEL_SCANS

\* C9 as stated: a scan is done no later than DISCOVERY_TIMEOUT after its
\* start.
C9_DoneByDeadline ==
    scanPc = "done" => now <= DISCOVERY_TIMEOUT

\* C9 as amended: no probe is started later than DISCOVERY_TIMEOUT after the
\* scan's start, the last (partial) batch is given up at DISCOVERY_TIMEOUT,
\* and the scan is done at most one SCAN_TIMEOUT after the deadline or, when
\* the interface enumeration itself overran the deadline, as soon as the
\* enumeration returns.
C9_DoneWithinOneProbeOfDeadline ==
    /\ (inflight # {} => batchStart <= DISCOVERY_TIMEOUT)
    /\ (scanPc = "final_gather" => now <= DISCOVERY_TIMEOUT)
    /\ (enumDone <= DISCOVERY_TIMEOUT => now <= DISCOVERY_TIMEOUT + SCAN_TIMEOUT)
    /\ (enumDone > DISCOVERY_TIMEOUT => now = enumDone /\ probed = {})

\* A scan is done a full SCAN_TIMEOUT after the deadline: its last full batch
\* was started exactly at the deadline.
C9_Witness ==
    /\ scanPc = "done"
    /\ now = DISCOVERY_TIMEOUT + SCAN_TIMEOUT
    /\ batchStart = DISCOVERY_TIMEOUT

\* C10: when a scan has run to its end (no exception ended it) without having
\* taken a deadline branch, the keys of discovered_devices are exactly the
\* device ids of the records its probes returned, and each entry holds an
\* address that answered with that id.
C10_DiscoveredIdsAreAnsweredIds ==
    (scanPc = "done" /\ ~deadlineHit /\ scanError = "none") =>
        /\ DiscoveredIds = {a[2] : a \in answered}
        /\ \A d \in DiscoveredIds : <<discovered_devices[d], d>> \in answered

\* A scan is done in time in which two addresses answered with the same id and
\* a third with another, the third in the trailing batch: two entries.
C10_Witness ==
    /\ scanPc = "done" /\ ~deadlineHit /\ scanError = "none"
    /\ answered = {<<1, 1>>, <<3, 1>>, <<4, 2>>}
    /\ DiscoveredIds = {1, 2}

C12_FailedProbesAreIsolated ==
    scanPc = "done" =>
        /\ \A ip \in Addresses : results[ip] \in DeviceIds \cup {0}
        /\ scanError = "none"
        /\ ~deadlineHit =>
            /\ networks_to_scan = {} /\ hostsLeft = <<>>
            /\ TaskSet(scan_tasks) \subseteq probed
            /\ {a[2] : a \in answered} \subseteq DiscoveredIds

\* C18: once more than DISCOVERY_TIMEOUT has elapsed since the scan's start,
\* no probe is started (no batch, full or trailing, is awaited) and no further
\* network is taken from networks_to_scan; the trailing batch is awaited only
\* when time remains, and its wait_for gives up exactly at the deadline.
C18_NothingStartsPastDeadline ==
    /\ [][now > DISCOVERY_TIMEOUT =>
            /\ probed' = probed
            /\ inflight' \subseteq inflight
            /\ networks_to_scan' = networks_to_scan]_vars
    /\ [](scanPc = "final_gather" =>
            /\ batchStart < DISCOVERY_TIMEOUT
            /\ waitDeadline = batchStart + (DISCOVERY_TIMEOUT - batchStart))

\* A scan is done past the deadline with a probe collected and never started
\* and a network never visited.
C18_Witness ==
    /\ scanPc = "done"
    /\ now > DISCOVERY_TIMEOUT
    /\ scan_tasks = <<7>> /\ 7 \notin probed
    /\ networks_to_scan = {1}
    /\ scanError = "none"

-----------------------------------------------------------------------------
(* Properties of the light entity.                                         *)

\* C13 as stated: the brightness written into a turn_on command is
\* max(1, round(b / 255 * 100)) for the requested brightness b, and the
\* brightness presented for a device brightness p is round(p / 100 * 255),
\* round being Python's (to the nearest integer, a tie to the even one).
C13_ConversionsRound ==
    LET round(n, d) ==
            LET q == n \div d
                r == n % d
            IN IF 2 * r < d THEN q
               ELSE IF 2 * r > d THEN q + 1
               ELSE IF q % 2 = 0 THEN q ELSE q + 1
        max(x, y) == IF x >= y THEN x ELSE y
    IN /\ (call.service = "turn_on" /\ call.kwargs.brightness # Absent) =>
            command.brightness = max(1, round(call.kwargs.brightness * 100, 255))
       /\ (lightPc = "updated" /\ lightState.brightness # Absent) =>
            Brightness(lightState) = round(lightState.brightness * 255, 100)

\* C14 as stated: once the device has applied a turn_on command with
\* brightness b, the brightness the entity presents from the resulting
\* snapshot is within one unit of b.  It is stated for b >= 3, the
\* brightnesses that the floor at 1 leaves alone.
C14_RoundTripWithinOne ==
    (lightPc = "applied" /\ call.service = "turn_on" /\ call.kwargs.brightness >= 3) =>
        /\ lightState.brightness = ToDevice(call.kwargs.brightness)
        /\ Brightness(lightState) - call.kwargs.brightness \in -1..1

\* C15: a command built by async_turn_on has power "on"; it carries a
\* brightness exactly when one was requested, and that brightness is in
\* 1..100 for every requested brightness in 0..255; no command has power "on"
\* and brightness 0.
C15_TurnOnBrightnessFloored ==
    /\ call.service = "turn_on" =>
        /\ command.power = "on"
        /\ (call.kwargs.brightness = Absent <=> command.brightness = Absent)
        /\ (call.kwargs.brightness # Absent => command.brightness \in 1..MaxPercent)
    /\ ~(command.power = "on" /\ command.brightness = 0)

\* A turn_on call with brightness 0 has built its command: brightness 1.
C15_Witness ==
    /\ lightPc = "sent"
    /\ call.service = "turn_on"
    /\ call.kwargs.brightness = 0
    /\ command.power = "on"
    /\ command.brightness = 1

\* C16: the effect the entity presents is None exactly when the snapshot's
\* effect is the sentinel EFFECT_STATIC or the snapshot has no effect, and is
\* the snapshot's effect otherwise.
C16_StaticEffectIsNone ==
    /\ Effect(lightState) = PyNone <=>
        (lightState.effect = EFFECT_STATIC \/ lightState.effect = "absent")
    /\ Effect(lightState) # PyNone => Effect(lightState) = lightState.effect

\* The entity has received a snapshot whose effect is the sentinel, and a
\* turn_on call with that effect has been applied.
C16_Witness ==
    /\ lightState.effect = EFFECT_STATIC
    /\ lightPc \in {"updated", "applied"}
    /\ Effect(lightState) = PyNone

-----------------------------------------------------------------------------
(* Properties of the flow's scan step.                                     *)

\* C19: at no time are two executions of _discover_devices_http in progress
\* for one flow, however often async_step_scan is called before
\* _discovery_done is set.
C19_AtMostOneSweep ==
    sweeps <= 1

\* C20: a scan task that was created leads to _discovery_done being set, on
\* every path of the scan; async_step_scan answers with the progress step
\* while discovery is not done, and once it is done with the device selection
\* if discovered_devices has an entry and with the manual entry if it has
\* none.
C20_ScanEndsAndStepBranches ==
    /\ (pendingTasks > 0 \/ sweeps > 0) ~> discovery_done
    /\ [][flowResult' # flowResult =>
            flowResult' = IF ~discovery_done THEN "progress"
                          ELSE IF DiscoveredIds # {} THEN "discovery" ELSE "manual"]_vars
    /\ [](flowResult = "discovery" => discovery_done /\ DiscoveredIds # {})
    /\ [](flowResult = "manual" => discovery_done /\ DiscoveredIds = {})

\* The scan was ended by the timeout of its last batch after an earlier batch
\* had recorded a device, and async_step_scan has answered with the device
\* selection.
C20_Witness ==
    /\ discovery_done
    /\ finalTimedOut
    /\ DiscoveredIds # {}
    /\ flowResult = "discovery"

-----------------------------------------------------------------------------
(* Properties of the form steps and of validate_input.                     *)

C22_ValidateClassifiesFailures ==
    (valResult \notin {"none", "pending"}) =>
        /\ (valReply \in {"timeout", "client_error", "bad_status", "ok_no_device"} =>
                valResult = "CannotConnect")
        /\ (valResult = "UnknownError" =>
                valReply \in {"ok_device_not_object", "bad_json"})
        /\ ((flowPc = "rest" /\ valResult = "CannotConnect") =>
                form.errors = "cannot_connect")
        /\ ((flowPc = "rest" /\ valResult = "UnknownError") => form.errors = "unknown")

\* C23: every call of validate_input issues exactly one GET and ends on that
\* attempt, with the info record, CannotConnect or UnknownError: while it
\* awaits its GET it is in its first turn of the loop, and once it is over
\* the loop body has run once and the function has not returned None.
C23_ValidateIsSingleAttempt ==
    /\ valGets <= 1
    /\ (flowPc = "validate" =>
            valGets = 1 /\ try_count = 1 /\ valResult = "pending")
    /\ (valResult \notin {"none", "pending"} =>
            /\ valGets = 1
            /\ try_count = 2
            /\ valResult \in {"info", "CannotConnect", "UnknownError"})

\* A validate_input call on a host typed into the manual form has ended with
\* CannotConnect on a timeout of its first GET.
C23_Witness ==
    /\ valCaller = "manual"
    /\ valReply = "timeout"
    /\ valResult = "CannotConnect"
    /\ valGets = 1
    /\ flowPc = "rest"
    /\ form.errors = "cannot_connect"

-----------------------------------------------------------------------------
(* Properties of the interface enumeration.  An ip_info counts when its    *)
(* adapter is enabled and its address is there and not loopback; it gives  *)
(* a usable subnet when its prefix can be parsed and the network address   *)
(* of its subnet is not a bridge address.                                  *)

\* C24 as stated: no probe is ever issued to a bridge-range address, and no
\* subnet of the scan set has a bridge-range network address, for every
\* adapter address and every prefix length.
C24_NoBridgeAddressProbed ==
    /\ \A n \in candidates : FirstOctet(n.addr) # BridgeOctet
    /\ \A a \in probed : FirstOctet(a) # BridgeOctet

\* C24 as amended: no subnet of the scan set has a bridge-range network
\* address, and a bridge-range address is probed only as a host of a subnet of
\* the scan set whose prefix is shorter than the first octet; with prefixes
\* of at least one octet no bridge-range address is probed.
C24_BridgeProbedOnlyInWideSubnet ==
    /\ \A n \in candidates : FirstOctet(n.addr) # BridgeOctet
    /\ \A a \in probed :
            FirstOctet(a) = BridgeOctet =>
                \E n \in candidates : n.prefix < OctetBits /\ a \in NetHosts(n)

\* A scan is over whose one adapter has a bridge address and a home address:
\* the home subnet alone was scanned.
C24_Witness ==
    /\ scanPc = "done" /\ ~deadlineHit
    /\ Len(adapters) = 1 /\ Len(adapters[1].ipv4) = 2
    /\ FirstOctet(adapters[1].ipv4[1].address) = BridgeOctet
    /\ FirstOctet(adapters[1].ipv4[2].address) = HomeOctet
    /\ is_docker
    /\ candidates = {IpNetwork(HomeOctet * 2^RestBits, OctetBits)}
    /\ probed # {}
    /\ \A a \in probed : FirstOctet(a) = HomeOctet

\* C25: the common home networks are added exactly when an ip_info that
\* counts has a bridge-range address and none gives a usable subnet; the scan
\* set is then the common networks, and they are scanned; with a usable
\* subnet the scan set is the usable subnets and nothing else.
C25_CommonNetworksOnlyAsFallback ==
    LET infos == UNION {{adapters[i].ipv4[j] : j \in DOMAIN adapters[i].ipv4} :
                            i \in {k \in DOMAIN adapters : adapters[k].enabled}}
        counted == {e \in infos : e.address # NoAddress
                                  /\ FirstOctet(e.address) # LoopbackOctet}
        hasBridge == \E e \in counted : FirstOctet(e.address) = BridgeOctet
        prefixOf(e) == IF e.network_prefix = NoPrefix THEN DefaultPrefix
                       ELSE e.network_prefix
        usable == {e \in counted :
                      /\ prefixOf(e) \in 0..AddrBits
                      /\ FirstOctet(IpNetwork(e.address, prefixOf(e)).addr) # BridgeOctet}
    IN scanPc \in {"net_loop", "done"} =>
        /\ common_added <=> (hasBridge /\ usable = {})
        /\ common_added => candidates = CommonNetworks
        /\ usable # {} =>
            candidates = {IpNetwork(e.address, prefixOf(e)) : e \in usable}
        /\ (common_added /\ scanPc = "done" /\ ~deadlineHit) =>
            probed = UNION {NetHosts(n) : n \in CommonNetworks} \ local_ips

\* A scan is over that found a disabled adapter with a home address and an
\* enabled one with a bridge address: the common networks were scanned.
C25_Witness ==
    /\ scanPc = "done" /\ ~deadlineHit
    /\ Len(adapters) = 2
    /\ ~adapters[1].enabled
    /\ FirstOctet(adapters[1].ipv4[1].address) = HomeOctet
    /\ adapters[2].enabled
    /\ FirstOctet(adapters[2].ipv4[1].address) = BridgeOctet
    /\ common_added
    /\ probed # {}

\* C27: when no ip_info that counts gives a usable subnet or has a
\* bridge-range address (no adapter, disabled adapters, loopback addresses
\* only), the scan is over once the adapters are enumerated: no probe was
\* issued, no error was raised, discovered_devices is empty and discovery is
\* marked done.
C27_NoInterfaceNoProbe ==
    LET infos == UNION {{adapters[i].ipv4[j] : j \in DOMAIN adapters[i].ipv4} :
                            i \in {k \in DOMAIN adapters : adapters[k].enabled}}
        counted == {e \in infos : e.address # NoAddress
                                  /\ FirstOctet(e.address) # LoopbackOctet}
        hasBridge == \E e \in counted : FirstOctet(e.address) = BridgeOctet
        prefixOf(e) == IF e.network_prefix = NoPrefix THEN DefaultPrefix
                       ELSE e.network_prefix
        usable == {e \in counted :
                      /\ prefixOf(e) \in 0..AddrBits
                      /\ FirstOctet(IpNetwork(e.address, prefixOf(e)).addr) # BridgeOctet}
    IN (scanPc \in {"net_loop", "done"} /\ usable = {} /\ ~hasBridge) =>
        /\ scanPc = "done"
        /\ discovery_done
        /\ probed = {}
        /\ candidates = {}
        /\ ~common_added
        /\ scanError = "none"
        /\ DiscoveredIds = {}

\* A scan is over that found a disabled adapter with a home address and an
\* enabled adapter with a loopback address, and the flow has gone on to the
\* manual entry.
C27_Witness ==
    /\ scanPc = "done"
    /\ Len(adapters) = 2
    /\ ~adapters[1].enabled
    /\ FirstOctet(adapters[1].ipv4[1].address) = HomeOctet
    /\ adapters[2].enabled
    /\ FirstOctet(adapters[2].ipv4[1].address) = LoopbackOctet
    /\ discovery_done
    /\ probed = {}
    /\ flowResult = "manual"

-----------------------------------------------------------------------------
(* Further properties of the discovery scan.                               *)

\* C26: no address of local_ips is ever probed, and when a scan is done that
\* took no deadline branch, the addresses probed are exactly the hosts of all
\* candidate networks that are not in local_ips, those of the trailing
\* partial batch included.
C26_ProbedIsAllForeignHosts ==
    /\ probed \cap local_ips = {}
    /\ (scanPc = "done" /\ ~deadlineHit) =>
            probed = UNION {TaskSet(Hosts[n]) : n \in candidates} \ local_ips

\* C29: when a scan is done (one that no exception ended), every device id a
\* probe returned a record for has an entry in discovered_devices, and the
\* entry holds an address that answered with this id; so also for the records
\* of a trailing partial batch whose wait_for expired while other probes of
\* the batch were still running.
C29_AnsweredProbesAreRecorded ==
    (scanPc = "done" /\ scanError = "none") =>
        \A a \in answered :
            /\ discovered_devices[a[2]] # 0
            /\ <<discovered_devices[a[2]], a[2]>> \in answered

\* C28: a poll cycle that has read GET /state and commits after a command has
\* meanwhile stored the state its POST returned leaves the state block of the
\* snapshot as the command stored it.
C28_PollKeepsNewerCommandState ==
    [][(pollPc = "info" /\ hist.pollStale /\ pollPc' = "idle" /\ last'.ok)
            => data'.state = data.state]_vars

\* C30: async_unload_entry removes the coordinator from hass.data[DOMAIN]
\* exactly when the platform unload succeeded, and while a freshly constructed
\* coordinator runs its first refresh no earlier coordinator of the entry is
\* still stored in hass.data[DOMAIN] or held by a forwarded platform: over
\* setup, unload and reload the entry has at most one coordinator.
C30_AtMostOneCoordinator ==
    /\ [](phase = "first_refresh" => (hassData = 0 /\ ~forwarded))
    /\ [][(phase = "unloading" /\ phase' # "unloading")
                => ((hassData' = 0) <=> unloadResult'.ok)]_vars

====
